---- MODULE Spec2Model ----
(***************************************************************************)
(* A model of the recursive-descent parser of src/src/parser.rs.           *)
(*                                                                         *)
(* The top-level dispatcher loop of parse() is the state machine: one      *)
(* action per branch of its match.  Every parser function it calls is an   *)
(* operator that maps a parse session (the record `lexer`) to the session  *)
(* after the call together with the value the function returns:            *)
(* [l |-> session, r |-> result].  Option values are sequences of length   *)
(* 0 (None) or 1 (Some).                                                   *)
(***************************************************************************)
EXTENDS Integers, Sequences, FiniteSets, TLC

VARIABLES
    tokens,     \* the token stream handed to parse(), as the lexer yields it
    lnk,        \* parse()'s parameter lnk: the caller-supplied linkage
    lexer,      \* the ParseSession
    unit,       \* the CompilationUnit under construction
    linkage,    \* parse()'s local `linkage`
    constant,   \* parse()'s local `constant`
    pc,         \* "loop": at the match of the dispatcher loop; "returned":
                \* parse() has returned; "done": parse_file has returned
    parsed,     \* the value parse() returned: <<>> before, <<[unit, errors]>> after
    file_result,\* the value parse_file returned, <<>> before it has
    hist        \* history of the dispatcher loop (observations, no program state)

vars == <<tokens, lnk, lexer, unit, linkage, constant, pc, parsed, file_result, hist>>

-----------------------------------------------------------------------------
(* Option values and results of parser functions *)

None == <<>>
Some(x) == <<x>>
IsSome(o) == Len(o) = 1
IsNone(o) == Len(o) = 0
Ret(l, r) == [l |-> l, r |-> r]

\* Bind([x \in {v} |-> e]) is e with x bound to the value v: `let x = v; e`
Bind(f) == f[CHOOSE value \in DOMAIN f : TRUE]

-----------------------------------------------------------------------------
(* Tokens.  A token is a string: the name of the Token variant for         *)
(* keywords, punctuation and pragmas, and the source text for identifiers, *)
(* integer literals and hardware-access tokens.                            *)

Identifiers == {"foo", "bar", "x", "y", "INT", "ANY_INT", "ANY_BOGUS"}
Integers_ == {"1", "2"}
HardwareTokens == {"%IX", "%I*"}

Kind(t) ==
    IF t \in Identifiers THEN "Identifier"
    ELSE IF t \in Integers_ THEN "LiteralInteger"
    ELSE IF t \in HardwareTokens THEN "HardwareAccess"
    ELSE t

\* the (direction, access type) pair a HardwareAccess token carries
HardwareAccessOf(t) ==
    IF t = "%I*" THEN [direction |-> "Input", access |-> "Template"]
    ELSE [direction |-> "Input", access |-> "Bit"]

-----------------------------------------------------------------------------
(* The parse session (lexer.rs): cursor, last token, region stack, scope   *)
(* slot and diagnostic log.  The fields opens, closes, stuck, panicked,    *)
(* off_boundary, unguarded and nested_scope observe the run; no parser     *)
(* decision reads them.  calls is the log of the calls of the declaration  *)
(* parsers (parse_interface, parse_property, parse_method, the type,       *)
(* variable and config-variable parsers): where each started and ended in  *)
(* the token stream and in the diagnostic log, and what it returned.       *)

NewSession ==
    [pos |-> 1, last_token |-> "End", closing_keywords |-> <<>>, scope |-> None,
     diagnostics |-> <<>>, opens |-> 0, closes |-> 0, stuck |-> FALSE,
     panicked |-> FALSE, off_boundary |-> FALSE,
     unguarded |-> {}, nested_scope |-> FALSE, calls |-> <<>>]

AtEnd(l) == l.pos > Len(tokens)
Tok(l) == IF AtEnd(l) THEN "End" ELSE Kind(tokens[l.pos])
Slice(l) == IF AtEnd(l) THEN "" ELSE tokens[l.pos]

is_end_of_stream(l) == Tok(l) = "End"

accept_diagnostic(l, d) == [l EXCEPT !.diagnostics = Append(@, d)]

advance(l) ==
    [l EXCEPT !.last_token = Tok(l),
              !.pos = IF AtEnd(l) THEN l.pos ELSE l.pos + 1]

try_consume(l, t) == IF Tok(l) = t THEN Ret(advance(l), TRUE) ELSE Ret(l, FALSE)

try_consume_or_report(l, t) ==
    IF Tok(l) = t THEN advance(l)
    ELSE accept_diagnostic(l, [code |-> "missing_token", what |-> t])

slice_and_advance(l) == Ret(advance(l), Slice(l))

enter_region(l, closing_tokens) ==
    [l EXCEPT !.closing_keywords = Append(@, closing_tokens), !.opens = @ + 1]

close_region(l) ==
    [l EXCEPT !.closing_keywords = IF Len(@) = 0 THEN @ ELSE SubSeq(@, 1, Len(@) - 1),
              !.closes = @ + 1]

\* the innermost open frame that holds token t, 0 when none does
HitFrame(l, t) ==
    Bind([hits \in {{i \in 1..Len(l.closing_keywords) : t \in l.closing_keywords[i]}} |->
       IF hits = {} THEN 0 ELSE CHOOSE i \in hits : \A j \in hits : j <= i])

closes_open_region(l, t) ==
    t = "End" \/ \E i \in 1..Len(l.closing_keywords) : t \in l.closing_keywords[i]

RECURSIVE SkipToClose(_)
SkipToClose(l) ==
    IF Tok(l) # "End" /\ HitFrame(l, Tok(l)) = 0
    THEN SkipToClose(advance(l))
    ELSE l

recover_until_close(l) ==
    Bind([s \in {SkipToClose(l)} |->
    Bind([r \in {IF s.pos # l.pos
                 THEN accept_diagnostic(s, [code |-> "unexpected_token_found",
                                            what |-> "recovery"])
                 ELSE s} |->
    Bind([hit \in {HitFrame(r, Tok(r))} |->
       IF hit = 0 THEN r
       ELSE IF Len(r.closing_keywords) > hit
            THEN accept_diagnostic(r, [code |-> "missing_token", what |-> "closing"])
            ELSE advance(r)])])])

\* the expect_token! macro: TRUE when the current token is t; otherwise the
\* diagnostic is recorded and the caller returns
expect_token(l, t) ==
    IF Tok(l) = t THEN Ret(l, TRUE)
    ELSE Ret(accept_diagnostic(l, [code |-> "unexpected_token_found", what |-> t]), FALSE)

\* Observation: the call fn(arg) that started on session `start` returns ret
log_call(fn, arg, start, ret) ==
    Ret([ret.l EXCEPT !.calls =
            Append(@, [fn |-> fn, arg |-> arg, from |-> start.pos, to |-> ret.l.pos,
                       diags_from |-> Len(start.diagnostics),
                       diags_to |-> Len(ret.l.diagnostics), result |-> ret.r])],
        ret.r)

VarTokens ==
    {"KeywordVar", "KeywordVarInput", "KeywordVarOutput", "KeywordVarInOut",
     "KeywordVarTemp", "KeywordVarGlobal", "KeywordVarExternal"}

is_var(t) == t \in VarTokens

qualified_name(container, name) == container \o "." \o name

Diagnostic(code, what) == [code |-> code, what |-> what]

-----------------------------------------------------------------------------
(* Region wrapper and scope slot (parser.rs) *)

\* the index of the first token at or after position p that closes a region
\* open in l (Len(tokens) + 1 stands for end-of-stream)
FirstCloser(l, p) ==
    CHOOSE i \in p..(Len(tokens) + 1) :
        /\ i = Len(tokens) + 1 \/ closes_open_region(l, Kind(tokens[i]))
        /\ \A j \in p..(i - 1) : ~closes_open_region(l, Kind(tokens[j]))

\* parse_any_in_region, first line: lexer.enter_region(closing_tokens), after
\* which the caller's parse_fn runs on the session
parse_any_in_region_enter(l, closing_tokens) == enter_region(l, closing_tokens)

\* parse_any_in_region that leaves the frame open unless recovery ended on a
\* closing token of that frame
parse_any_in_region_leaky(inner) ==
    Bind([recovered \in {recover_until_close(inner.l)} |->
       IF recovered.pos > SkipToClose(inner.l).pos
       THEN Ret(close_region(recovered), inner.r)
       ELSE Ret(recovered, inner.r)])

\* parse_any_in_region that closes its frame without recovering first
parse_any_in_region_unrecovered(inner) ==
    Bind([first \in {FirstCloser(inner.l, inner.l.pos)} |->
    Bind([onBoundary \in {inner.l.pos = first
                          \/ (first <= Len(tokens) /\ inner.l.pos = first + 1)} |->
       Ret(close_region([inner.l EXCEPT !.off_boundary = @ \/ ~onBoundary]), inner.r)])])

\* parse_any_in_region, after parse_fn returned `inner`:
\* lexer.recover_until_close(); lexer.close_region(); result.
\* off_boundary observes where the wrapper leaves the cursor.
parse_any_in_region(inner) ==
    Bind([recovered \in {recover_until_close(inner.l)} |->
    Bind([first \in {FirstCloser(inner.l, inner.l.pos)} |->
    Bind([onBoundary \in {recovered.pos = first
                          \/ (first <= Len(tokens) /\ recovered.pos = first + 1)} |->
    Bind([observed \in {[recovered EXCEPT !.off_boundary = @ \/ ~onBoundary]} |->
       Ret(close_region(observed), inner.r)])])])])

\* with_scope, first line: lexer.scope = Some(scope), after which the caller's
\* parse_fn runs.  nested_scope observes an entry while the slot is occupied.
with_scope_enter(l, scope) ==
    [l EXCEPT !.scope = Some(scope), !.nested_scope = @ \/ IsSome(l.scope)]

\* with_scope that leaves the slot as the body left it
with_scope_keeping(inner) == inner

\* with_scope, after parse_fn returned `inner`: lexer.scope = None; result
with_scope(inner) == Ret([inner.l EXCEPT !.scope = None], inner.r)

\* Observation: `construct` starts the work on its body here; it is recorded
\* as unguarded when its end keyword closes no open region at this point.
observe_construct(l, construct, end_keyword) ==
    IF closes_open_region(l, end_keyword) THEN l
    ELSE [l EXCEPT !.unguarded = @ \cup {construct}]

-----------------------------------------------------------------------------
(* The expression and statement sub-parsers (expressions_parser.rs,         *)
(* control_parser.rs).  Their grammar here: identifiers with member access, *)
(* integer literals, `*`, ranges and comma lists.                           *)

EmptyStatement == [stmt |-> "EmptyStatement"]

RECURSIVE parse_qualified_reference(_, _)
parse_qualified_reference(l, name) ==
    IF Tok(l) = "KeywordDot" /\ ~AtEnd(advance(l)) /\ Tok(advance(l)) = "Identifier"
    THEN Bind([m \in {slice_and_advance(advance(l))} |->
            parse_qualified_reference(m.l, qualified_name(name, m.r))])
    ELSE Ret(l, [stmt |-> "ReferenceExpr", access |-> "Member", name |-> name])

parse_leaf_expression(l) ==
    CASE Tok(l) = "Identifier" ->
            Bind([n \in {slice_and_advance(l)} |->
                                             parse_qualified_reference(n.l, n.r)])
      [] Tok(l) = "LiteralInteger" ->
            Ret(advance(l), [stmt |-> "Literal", value |-> Slice(l)])
      [] Tok(l) = "OperatorMultiplication" ->
            Ret(advance(l), [stmt |-> "VlaRangeStatement"])
      [] OTHER ->
            Ret(accept_diagnostic(l, Diagnostic("unexpected_token_found", "Literal")),
                EmptyStatement)

parse_range_statement(l) ==
    Bind([left \in {parse_leaf_expression(l)} |->
       IF Tok(left.l) = "KeywordDotDot"
       THEN Bind([right \in {parse_leaf_expression(advance(left.l))} |->
               Ret(right.l, [stmt |-> "RangeStatement", start |-> left.r, end |-> right.r])])
       ELSE left])

RECURSIVE parse_expression_list_loop(_, _)
parse_expression_list_loop(l, expressions) ==
    IF Tok(l) = "KeywordComma"
    THEN Bind([a \in {advance(l)} |->
            IF ~closes_open_region(a, Tok(a))
            THEN Bind([e \in {parse_range_statement(a)} |->
                    parse_expression_list_loop(e.l, Append(expressions, e.r))])
            ELSE parse_expression_list_loop(a, expressions)])
    ELSE Ret(l, [stmt |-> "ExpressionList", expressions |-> expressions])

parse_expression_list(l) ==
    Bind([left \in {parse_range_statement(l)} |->
       IF Tok(left.l) = "KeywordComma"
       THEN parse_expression_list_loop(left.l, <<left.r>>)
       ELSE left])

parse_expression(l) == parse_expression_list(l)

parse_call_statement(l) ==
    IF Tok(l) = "Identifier"
    THEN Bind([n \in {slice_and_advance(l)} |->
         Bind([q \in {parse_qualified_reference(n.l, n.r)} |->
            Ret(q.l, Some(q.r))])])
    ELSE Ret(accept_diagnostic(l, Diagnostic("unexpected_token_found", "Literal")), None)

parse_strict_literal_integer(l) ==
    IF Tok(l) = "LiteralInteger"
    THEN Ret(advance(l), Some([stmt |-> "Literal", value |-> Slice(l)]))
    ELSE Ret(accept_diagnostic(l, Diagnostic("unexpected_token_found", "LiteralInteger")),
             None)

-----------------------------------------------------------------------------
(* Statements and bodies (parser.rs) *)

\* parse_statement without its region: no recovery after the expression
parse_statement_unrecovered(l) == parse_expression(l)

parse_statement(l) ==
    Bind([r \in {parse_any_in_region(
                parse_expression(parse_any_in_region_enter(l, {"KeywordSemicolon",
                    "KeywordColon"})))} |->
       IF r.l.last_token = "KeywordColon"
       THEN Ret(r.l, [stmt |-> "CaseCondition", condition |-> r.r])
       ELSE r])

\* control_parser.rs: every statement that opens with no control keyword is
\* handed back to parse_statement
parse_control_statement(l) == parse_statement(l)

parse_control(l) == parse_control_statement(l)

\* A pass of the loop that leaves the cursor where it was would repeat for
\* ever: the model records it in `stuck` and leaves the loop.
RECURSIVE parse_body_standalone_loop(_, _)
parse_body_standalone_loop(l, statements) ==
    IF ~closes_open_region(l, Tok(l))
    THEN Bind([s \in {parse_control(l)} |->
            IF s.l.pos = l.pos
            THEN Ret([s.l EXCEPT !.stuck = TRUE], Append(statements, s.r))
            ELSE parse_body_standalone_loop(s.l, Append(statements, s.r))])
    ELSE Ret(l, statements)

parse_body_standalone(l) == parse_body_standalone_loop(l, <<>>)

parse_body_in_region(l, end_keywords) ==
    parse_any_in_region(parse_body_standalone(parse_any_in_region_enter(l, end_keywords)))

parse_reference(l) ==
    Bind([c \in {parse_call_statement(l)} |->
       IF IsSome(c.r) THEN Ret(c.l, c.r[1]) ELSE Ret(c.l, EmptyStatement)])

-----------------------------------------------------------------------------
(* Small helpers (parser.rs) *)

parse_identifier(l) ==
    IF Tok(l) = "Identifier"
    THEN Ret(advance(l), Some(Slice(l)))
    ELSE Ret(accept_diagnostic(l, Diagnostic("unexpected_token_found", "Identifier")), None)

parse_access_modifier(l) ==
    CASE Tok(l) = "KeywordAccessPublic" -> Ret(advance(l), "Public")
      [] Tok(l) = "KeywordAccessPrivate" -> Ret(advance(l), "Private")
      [] Tok(l) = "KeywordAccessProtected" -> Ret(advance(l), "Protected")
      [] Tok(l) = "KeywordAccessInternal" -> Ret(advance(l), "Internal")
      [] OTHER -> Ret(l, "Protected")

\* pou_type is the name of the PouType variant
parse_polymorphism_mode(l, pou_type) ==
    IF pou_type \in {"Class", "FunctionBlock", "Method"}
    THEN CASE Tok(l) = "KeywordFinal" -> Ret(advance(l), Some("Final"))
           [] Tok(l) = "KeywordAbstract" -> Ret(advance(l), Some("Abstract"))
           [] OTHER -> Ret(l, Some("None"))
    ELSE Ret(l, None)

TypeNatures ==
    {"ANY", "ANY_DERIVED", "ANY_ELEMENTARY", "ANY_MAGNITUDE", "ANY_NUM", "ANY_REAL",
     "ANY_INT", "ANY_SIGNED", "ANY_UNSIGNED", "ANY_DURATION", "ANY_BIT", "ANY_CHARS",
     "ANY_STRING", "ANY_CHAR", "ANY_DATE", "__ANY_VLA"}

parse_type_nature(l, nature) ==
    IF nature \in TypeNatures THEN Ret(l, nature)
    ELSE Ret(accept_diagnostic(l, Diagnostic("E063", nature)), "ANY")

-----------------------------------------------------------------------------
(* Hardware addresses (parser.rs) *)

RECURSIVE parse_hardware_access_loop(_, _)
parse_hardware_access_loop(l, address) ==
    Bind([int \in {parse_strict_literal_integer(l)} |->
       IF IsNone(int.r) THEN Ret(int.l, None)
       ELSE Bind([dot \in {try_consume(int.l, "KeywordDot")} |->
               IF dot.r
               THEN parse_hardware_access_loop(dot.l, Append(address, int.r[1]))
               ELSE Ret(dot.l, Some(Append(address, int.r[1])))])])

parse_hardware_access(l, hardware_access_type, access_type) ==
    Bind([a \in {advance(l)} |->
       IF access_type = "Template" \/ Tok(a) = "LiteralInteger"
       THEN Bind([address \in {IF Tok(a) = "LiteralInteger"
                               THEN parse_hardware_access_loop(a, <<>>)
                               ELSE Ret(a, Some(<<>>))} |->
               IF IsNone(address.r) THEN Ret(address.l, None)
               ELSE Ret(address.l,
                        Some([stmt |-> "HardwareAccess", access |-> access_type,
                              direction |-> hardware_access_type,
                              address |-> address.r[1]]))])
       ELSE Ret(accept_diagnostic(a, Diagnostic("missing_token", "LiteralInteger")), None)])

-----------------------------------------------------------------------------
(* Type definitions and variable lines (parser.rs).  A parsed type is the   *)
(* pair [decl |-> DataTypeDeclaration, init |-> Option of initializer].     *)

DINT_TYPE == "DINT"

Definition(l, data_type) ==
    [kind |-> "Definition", data_type |-> data_type, scope |-> l.scope]
Reference(referenced_type) ==
    [kind |-> "Reference", referenced_type |-> referenced_type]
Typed(decl, init) == [decl |-> decl, init |-> init]

\* `:= expr` or `REF= expr` after a type
parse_initial_value(l) ==
    IF Tok(l) \in {"KeywordAssignment", "KeywordReferenceAssignment"}
    THEN Bind([e \in {parse_expression(advance(l))} |->
                                                  Ret(e.l, Some(e.r))])
    ELSE Ret(l, None)

\* parse_type_reference_type_definition without the arm for a single member
\* reference
parse_type_reference_type_definition_lists_only(l, name) ==
    log_call("parse_type_reference_type_definition", name, l,
    Bind([rt \in {slice_and_advance(l)} |->
    Bind([referenced_type \in {rt.r} |->
    Bind([open \in {try_consume(rt.l, "KeywordParensOpen")} |->
    Bind([e \in {parse_expression(open.l)} |->
    Bind([close \in {expect_token(e.l, "KeywordParensClose")} |->
       IF open.r /\ ~close.r THEN Ret(close.l, None)
       ELSE
        Bind([bounds \in {IF open.r THEN Some(e.r) ELSE None} |->
        Bind([iv \in {parse_initial_value(IF open.r THEN advance(close.l) ELSE open.l)} |->
        Bind([m \in {iv.l} |->
           IF IsSome(name) \/ IsSome(bounds)
           THEN IF IsSome(bounds) /\ bounds[1].stmt = "ExpressionList"
                THEN Ret(m, Some(Typed(Definition(m,
                        [type |-> "EnumType", name |-> name,
                         numeric_type |-> referenced_type, elements |-> bounds[1]]),
                        iv.r)))
                ELSE Ret(m, Some(Typed(Definition(m,
                        [type |-> "SubRangeType", name |-> name,
                         referenced_type |-> referenced_type, bounds |-> bounds]),
                        iv.r)))
           ELSE Ret(m, Some(Typed(Reference(referenced_type), iv.r)))])])])])])])])]))

parse_type_reference_type_definition(l, name) ==
    log_call("parse_type_reference_type_definition", name, l,
    Bind([rt \in {slice_and_advance(l)} |->
    Bind([referenced_type \in {rt.r} |->
    Bind([open \in {try_consume(rt.l, "KeywordParensOpen")} |->
    Bind([e \in {parse_expression(open.l)} |->
    Bind([close \in {expect_token(e.l, "KeywordParensClose")} |->
       IF open.r /\ ~close.r THEN Ret(close.l, None)
       ELSE
        Bind([bounds \in {IF open.r THEN Some(e.r) ELSE None} |->
        Bind([iv \in {parse_initial_value(IF open.r THEN advance(close.l) ELSE open.l)} |->
        Bind([m \in {iv.l} |->
           IF IsSome(name) \/ IsSome(bounds)
           THEN IF IsSome(bounds) /\ bounds[1].stmt = "ExpressionList"
                THEN Ret(m, Some(Typed(Definition(m,
                        [type |-> "EnumType", name |-> name,
                         numeric_type |-> referenced_type, elements |-> bounds[1]]),
                        iv.r)))
                ELSE IF IsSome(bounds) /\ bounds[1].stmt = "ReferenceExpr"
                        /\ bounds[1].access = "Member"
                THEN Ret(m, Some(Typed(Definition(m,
                        [type |-> "EnumType", name |-> name,
                         numeric_type |-> referenced_type, elements |-> bounds[1]]),
                        iv.r)))
                ELSE Ret(m, Some(Typed(Definition(m,
                        [type |-> "SubRangeType", name |-> name,
                         referenced_type |-> referenced_type, bounds |-> bounds]),
                        iv.r)))
           ELSE Ret(m, Some(Typed(Reference(referenced_type), iv.r)))])])])])])])])]))

parse_string_size_expression_body(l, opening_token) ==
    Bind([e \in {parse_expression(l)} |->
    Bind([t \in {Tok(e.l)} |->
    Bind([m \in {IF (opening_token = "KeywordParensOpen" /\ t = "KeywordSquareParensClose")
                    \/ (opening_token = "KeywordSquareParensOpen" /\ t = "KeywordParensClose")
                 THEN accept_diagnostic(e.l, Diagnostic("E009", "parentheses"))
                 ELSE IF opening_token = "KeywordParensOpen" \/ t = "KeywordParensClose"
                 THEN accept_diagnostic(e.l, Diagnostic("E014", "parentheses"))
                 ELSE e.l} |->
       Ret(m, Some(e.r))])])])

parse_string_size_expression(l) ==
    Bind([opening_token \in {Tok(l)} |->
       IF opening_token \in {"KeywordSquareParensOpen", "KeywordParensOpen"}
       THEN parse_any_in_region(
               parse_string_size_expression_body(parse_any_in_region_enter(advance(l),
                   {"KeywordSquareParensClose", "KeywordParensClose"}), opening_token))
       ELSE Ret(l, None)])

parse_string_type_definition(l, name) ==
    Bind([text \in {Slice(l)} |->
    Bind([is_wide \in {Tok(l) = "KeywordWideString"} |->
    Bind([size \in {parse_string_size_expression(advance(l))} |->
    Bind([m \in {size.l} |->
    Bind([decl \in {IF IsSome(size.r)
                    THEN Definition(m, [type |-> "StringType", name |-> name,
                                        is_wide |-> is_wide, size |-> size.r])
                    ELSE IF IsSome(name)
                    THEN Definition(m, [type |-> "SubRangeType", name |-> name,
                                        referenced_type |-> text, bounds |-> None])
                    ELSE Reference(text)} |->
    Bind([iv \in {parse_initial_value(m)} |->
       Ret(iv.l, Some(Typed(decl, iv.r)))])])])])])])

parse_enum_type_definition(l, name) ==
    Bind([elements \in {parse_any_in_region(
                Bind([e \in {parse_expression_list(parse_any_in_region_enter(l,
                        {"KeywordParensClose"}))} |->
                                            Ret(e.l, Some(e.r))]))} |->
    Bind([initializer \in {IF Tok(elements.l) = "KeywordAssignment"
                           THEN Bind([e \in {parse_expression(advance(elements.l))} |->
                                   Ret(e.l, Some(e.r))])
                           ELSE Ret(elements.l, None)} |->
    Bind([m \in {initializer.l} |->
       IF IsNone(elements.r) THEN Ret(elements.l, None)
       ELSE Ret(m, Some(Typed(Definition(m,
                    [type |-> "EnumType", name |-> name, elements |-> elements.r[1],
                     numeric_type |-> DINT_TYPE]),
                    initializer.r)))])])])

parse_array_range(l) ==
    Bind([open \in {expect_token(l, "KeywordSquareParensOpen")} |->
       IF ~open.r THEN Ret(open.l, None)
       ELSE Bind([range_statement \in {parse_expression(advance(open.l))} |->
            Bind([close \in {expect_token(range_statement.l, "KeywordSquareParensClose")} |->
               IF ~close.r THEN Ret(close.l, None)
               ELSE Ret(advance(close.l), Some(range_statement.r))])])])

\* Some(TRUE/FALSE) for a range or a variable-length range, None otherwise
is_variable_length_of(range) ==
    CASE range.stmt = "RangeStatement" -> Some(FALSE)
      [] range.stmt = "VlaRangeStatement" -> Some(TRUE)
      [] range.stmt = "ExpressionList" ->
            (CASE range.expressions[1].stmt = "RangeStatement" -> Some(FALSE)
               [] range.expressions[1].stmt = "VlaRangeStatement" -> Some(TRUE)
               [] OTHER -> None)
      [] OTHER -> None

RECURSIVE parse_data_type_definition(_, _)
RECURSIVE parse_full_data_type_definition(_, _)
RECURSIVE parse_variable_list_loop(_, _)
RECURSIVE parse_variable_line(_)

\* parse_variable_list that reads the lines and returns none of them
parse_variable_list_dropping(l) == Ret(parse_variable_list_loop(l, <<>>).l, <<>>)

parse_variable_list(l) == parse_variable_list_loop(l, <<>>)

\* parse_pointer_definition that marks every pointer as not type-safe
parse_pointer_definition_unsafe(l, name, auto_deref, type_safe) ==
    Bind([d \in {parse_data_type_definition(l, None)} |->
       IF IsNone(d.r) THEN d
       ELSE Ret(d.l, Some(Typed(Definition(d.l,
                    [type |-> "PointerType", name |-> name,
                     referenced_type |-> d.r[1].decl, auto_deref |-> auto_deref,
                     type_safe |-> FALSE]),
                    d.r[1].init)))])

parse_pointer_definition(l, name, auto_deref, type_safe) ==
    Bind([d \in {parse_data_type_definition(l, None)} |->
       IF IsNone(d.r) THEN d
       ELSE Ret(d.l, Some(Typed(Definition(d.l,
                    [type |-> "PointerType", name |-> name,
                     referenced_type |-> d.r[1].decl, auto_deref |-> auto_deref,
                     type_safe |-> type_safe]),
                    d.r[1].init)))])

parse_array_type_definition(l, name) ==
    Bind([range \in {parse_any_in_region(
                parse_array_range(parse_any_in_region_enter(l, {"KeywordOf"})))} |->
       IF IsNone(range.r) THEN Ret(range.l, None)
       ELSE Bind([inner \in {parse_data_type_definition(range.l, None)} |->
            Bind([vla \in {is_variable_length_of(range.r[1])} |->
            Bind([m \in {IF IsNone(vla)
                         THEN accept_diagnostic(inner.l, Diagnostic("E008", "range"))
                         ELSE inner.l} |->
               IF IsNone(inner.r) THEN inner
               ELSE Ret(m, Some(Typed(Definition(m,
                        [type |-> "ArrayType", name |-> name, bounds |-> range.r[1],
                         referenced_type |-> inner.r[1].decl,
                         is_variable_length |-> IF IsNone(vla) THEN FALSE ELSE vla[1]]),
                        inner.r[1].init)))])])])])

parse_data_type_definition(l, name) ==
    log_call("parse_data_type_definition", name, l,
    CASE Tok(l) = "KeywordStruct" ->
            Bind([variables \in {parse_variable_list(advance(l))} |->
               Ret(variables.l, Some(Typed(Definition(variables.l,
                    [type |-> "StructType", name |-> name, variables |-> variables.r]),
                    None)))])
      [] Tok(l) = "KeywordArray" -> parse_array_type_definition(advance(l), name)
      [] Tok(l) = "KeywordPointer" ->
            Bind([reported \in {accept_diagnostic(advance(l), Diagnostic("E015", "POINTER TO"))} |->
            Bind([to \in {expect_token(reported, "KeywordTo")} |->
               parse_pointer_definition(IF to.r THEN advance(to.l) ELSE to.l,
                                        name, None, FALSE)])])
      [] Tok(l) = "KeywordRef" -> parse_pointer_definition(advance(l), name, None, TRUE)
      [] Tok(l) = "KeywordParensOpen" -> parse_enum_type_definition(advance(l), name)
      [] Tok(l) \in {"KeywordString", "KeywordWideString"} ->
            parse_string_type_definition(l, name)
      [] Tok(l) = "Identifier" -> parse_type_reference_type_definition(l, name)
      [] OTHER ->
            Ret(accept_diagnostic(l, Diagnostic("unexpected_token_found",
                                                "DataTypeDefinition")), None))

parse_full_data_type_definition_body(l, name) ==
    Bind([sized \in {try_consume(l, "PropertySized")} |->
    Bind([dots \in {try_consume(sized.l, "KeywordDotDotDot")} |->
       IF dots.r
       THEN Ret(dots.l, Some(Typed(Definition(dots.l,
                    [type |-> "VarArgs", referenced_type |-> None, sized |-> sized.r]),
                    None)))
       ELSE Bind([d \in {parse_data_type_definition(dots.l, name)} |->
               IF IsNone(d.r) THEN d
               ELSE Bind([more \in {try_consume(d.l, "KeywordDotDotDot")} |->
                       IF more.r
                       THEN Ret(more.l, Some(Typed(Definition(more.l,
                                [type |-> "VarArgs",
                                 referenced_type |-> Some(d.r[1].decl),
                                 sized |-> sized.r]),
                                None)))
                       ELSE Ret(more.l, d.r)])])])])

parse_full_data_type_definition(l, name) ==
    Bind([end_keyword \in {IF Tok(l) = "KeywordStruct" THEN "KeywordEndStruct"
                           ELSE "KeywordSemicolon"} |->
    Bind([parsed_datatype \in {parse_any_in_region(
                    parse_full_data_type_definition_body(parse_any_in_region_enter(l,
                        {end_keyword}), name))} |->
       IF end_keyword = "KeywordEndStruct"
       THEN Ret(try_consume(parsed_datatype.l, "KeywordSemicolon").l, parsed_datatype.r)
       ELSE parsed_datatype])])

Variable(name, data_type_declaration, initializer, address) ==
    [name |-> name, data_type_declaration |-> data_type_declaration,
     initializer |-> initializer, address |-> address]

\* parse_aliasing that forgets the aliased reference
parse_aliasing_without_reference(l, name) ==
    Bind([reference \in {parse_reference(l)} |->
    Bind([colon \in {try_consume_or_report(reference.l, "KeywordColon")} |->
    Bind([datatype \in {parse_pointer_definition(colon, None, Some("Alias"), TRUE)} |->
    Bind([semi \in {try_consume_or_report(datatype.l, "KeywordSemicolon")} |->
       IF IsSome(datatype.r)
       THEN Ret(semi, Some(Variable(name, datatype.r[1].decl, None, None)))
       ELSE Ret(semi, None)])])])])

parse_aliasing(l, name) ==
    Bind([reference \in {parse_reference(l)} |->
    Bind([colon \in {try_consume_or_report(reference.l, "KeywordColon")} |->
    Bind([datatype \in {parse_pointer_definition(colon, None, Some("Alias"), TRUE)} |->
    Bind([semi \in {try_consume_or_report(datatype.l, "KeywordSemicolon")} |->
       IF IsSome(datatype.r)
       THEN Ret(semi, Some(Variable(name, datatype.r[1].decl, Some(reference.r), None)))
       ELSE Ret(semi, None)])])])])

\* the comma separated names that open a variable line
RECURSIVE parse_variable_names(_, _)
parse_variable_names(l, var_names) ==
    IF Tok(l) = "Identifier"
    THEN Bind([n \in {slice_and_advance(l)} |->
         Bind([names \in {Append(var_names, n.r)} |->
            IF Tok(n.l) \in {"KeywordColon", "KeywordAt"} THEN Ret(n.l, names)
            ELSE IF Tok(n.l) = "KeywordComma"
            THEN parse_variable_names(advance(n.l), names)
            ELSE parse_variable_names(
                    accept_diagnostic(n.l, Diagnostic("missing_token",
                                                      "KeywordColon or KeywordComma")),
                    names)])])
    ELSE Ret(l, var_names)

\* the line giving the type to its first name only
parse_variable_line_type_first_name(l, var_names, address) ==
    Bind([colon \in {try_consume_or_report(l, "KeywordColon")} |->
    Bind([ref \in {try_consume(colon, "KeywordReferenceTo")} |->
    Bind([parse_definition_opt \in {
            IF ref.r THEN parse_pointer_definition(ref.l, None, Some("Reference"), TRUE)
            ELSE IF IsSome(address)
            THEN parse_pointer_definition(ref.l, None, Some("Alias"), TRUE)
            ELSE parse_full_data_type_definition(ref.l, None)} |->
    Bind([semi \in {try_consume(parse_definition_opt.l, "KeywordSemicolon").l} |->
       IF IsSome(parse_definition_opt.r)
       THEN Ret(semi, [i \in 1..(IF Len(var_names) > 0 THEN 1 ELSE 0) |->
                        Variable(var_names[i], parse_definition_opt.r[1].decl,
                                 parse_definition_opt.r[1].init, address)])
       ELSE Ret(semi, <<>>)])])])])

\* the line after its names and a possible hardware address
parse_variable_line_type(l, var_names, address) ==
    Bind([colon \in {try_consume_or_report(l, "KeywordColon")} |->
    Bind([ref \in {try_consume(colon, "KeywordReferenceTo")} |->
    Bind([parse_definition_opt \in {
            IF ref.r THEN parse_pointer_definition(ref.l, None, Some("Reference"), TRUE)
            ELSE IF IsSome(address)
            THEN parse_pointer_definition(ref.l, None, Some("Alias"), TRUE)
            ELSE parse_full_data_type_definition(ref.l, None)} |->
    Bind([semi \in {try_consume(parse_definition_opt.l, "KeywordSemicolon").l} |->
       IF IsSome(parse_definition_opt.r)
       THEN Ret(semi, [i \in 1..Len(var_names) |->
                        Variable(var_names[i], parse_definition_opt.r[1].decl,
                                 parse_definition_opt.r[1].init, address)])
       ELSE Ret(semi, <<>>)])])])])

parse_variable_line(l) ==
    log_call("parse_variable_line", None, l,
    Bind([names \in {parse_variable_names(l, <<>>)} |->
    Bind([var_names \in {names.r} |->
    Bind([at \in {try_consume(names.l, "KeywordAt")} |->
       IF at.r /\ Tok(at.l) = "HardwareAccess"
       THEN Bind([hw \in {HardwareAccessOf(Slice(at.l))} |->
            Bind([address \in {parse_hardware_access(at.l, hw.direction, hw.access)} |->
               parse_variable_line_type(address.l, var_names, address.r)])])
       ELSE IF at.r /\ Tok(at.l) = "Identifier"
       THEN IF Len(var_names) = 0
            THEN Ret([at.l EXCEPT !.panicked = TRUE], <<>>)
            ELSE Bind([aliased \in {parse_aliasing(at.l, var_names[1])} |->
                    Ret(aliased.l, aliased.r)])
       ELSE IF at.r
       THEN parse_variable_line_type(
                accept_diagnostic(at.l, Diagnostic("missing_token",
                                                   "hardware access or identifier")),
                var_names, None)
       ELSE parse_variable_line_type(at.l, var_names, None)])])]))

parse_variable_list_loop(l, variables) ==
    IF Tok(l) = "Identifier"
    THEN Bind([line_vars \in {parse_variable_line(l)} |->
            parse_variable_list_loop(line_vars.l, variables \o line_vars.r)])
    ELSE Ret(l, variables)

parse_variable_block_type(l) ==
    Bind([block_type \in {Tok(l)} |->
    Bind([by_ref \in {try_consume(advance(l), "PropertyByRef")} |->
    Bind([m \in {IF by_ref.r /\ block_type # "KeywordVarInput"
                 THEN accept_diagnostic(by_ref.l, Diagnostic("E024", "BY_REF"))
                 ELSE by_ref.l} |->
    Bind([argument_property \in {IF by_ref.r THEN "ByRef" ELSE "ByVal"} |->
       Ret(m,
        CASE block_type = "KeywordVar" -> [type |-> "Local"]
          [] block_type = "KeywordVarTemp" -> [type |-> "Temp"]
          [] block_type = "KeywordVarInput" ->
                [type |-> "Input", argument_property |-> argument_property]
          [] block_type = "KeywordVarOutput" -> [type |-> "Output"]
          [] block_type = "KeywordVarGlobal" -> [type |-> "Global"]
          [] block_type = "KeywordVarInOut" -> [type |-> "InOut"]
          [] block_type = "KeywordVarExternal" -> [type |-> "External"]
          [] OTHER -> [type |-> "Local"])])])])])

DefaultValue == [stmt |-> "DefaultValue"]

\* parse_variable_block that gives default values in VAR_EXTERNAL CONSTANT too
parse_variable_block_filling_external(l, block_linkage) ==
    log_call("parse_variable_block", None, l,
    Bind([variable_block_type \in {parse_variable_block_type(l)} |->
    Bind([const \in {try_consume(variable_block_type.l, "KeywordConstant")} |->
    Bind([retain \in {try_consume(const.l, "KeywordRetain")} |->
    Bind([non_retain \in {try_consume(retain.l, "KeywordNonRetain")} |->
    Bind([access \in {parse_access_modifier(non_retain.l)} |->
    Bind([parsed_variables \in {
            parse_any_in_region(
                    parse_variable_list( observe_construct(parse_any_in_region_enter(access.l,
                        {"KeywordEndVar"}), "variable block", "KeywordEndVar")))} |->
    Bind([variables \in {
            IF const.r
            THEN [i \in 1..Len(parsed_variables.r) |->
                    IF IsNone(parsed_variables.r[i].initializer)
                    THEN [parsed_variables.r[i] EXCEPT !.initializer = Some(DefaultValue)]
                    ELSE parsed_variables.r[i]]
            ELSE parsed_variables.r} |->
       Ret(parsed_variables.l,
           [access |-> access.r, constant |-> const.r, retain |-> retain.r,
            variables |-> variables, kind |-> variable_block_type.r,
            linkage |-> block_linkage])])])])])])])]))

parse_variable_block(l, block_linkage) ==
    log_call("parse_variable_block", None, l,
    Bind([variable_block_type \in {parse_variable_block_type(l)} |->
    Bind([const \in {try_consume(variable_block_type.l, "KeywordConstant")} |->
    Bind([retain \in {try_consume(const.l, "KeywordRetain")} |->
    Bind([non_retain \in {try_consume(retain.l, "KeywordNonRetain")} |->
    Bind([access \in {parse_access_modifier(non_retain.l)} |->
    Bind([parsed_variables \in {
            parse_any_in_region(
                    parse_variable_list( observe_construct(parse_any_in_region_enter(access.l,
                        {"KeywordEndVar"}), "variable block", "KeywordEndVar")))} |->
    Bind([variables \in {
            IF const.r /\ variable_block_type.r.type # "External"
            THEN [i \in 1..Len(parsed_variables.r) |->
                    IF IsNone(parsed_variables.r[i].initializer)
                    THEN [parsed_variables.r[i] EXCEPT !.initializer = Some(DefaultValue)]
                    ELSE parsed_variables.r[i]]
            ELSE parsed_variables.r} |->
       Ret(parsed_variables.l,
           [access |-> access.r, constant |-> const.r, retain |-> retain.r,
            variables |-> variables, kind |-> variable_block_type.r,
            linkage |-> block_linkage])])])])])])])]))

try_parse_config_var(l) ==
    log_call("try_parse_config_var", None, l,
    Bind([qualified_reference \in {parse_reference(l)} |->
    Bind([at \in {try_consume_or_report(qualified_reference.l, "KeywordAt")} |->
       IF Tok(at) # "HardwareAccess"
       THEN Ret(accept_diagnostic(at, Diagnostic("missing_token", "hardware access")), None)
       ELSE
        Bind([hw \in {HardwareAccessOf(Slice(at))} |->
        Bind([address \in {parse_hardware_access(at, hw.direction, hw.access)} |->
           IF IsNone(address.r) THEN Ret(address.l, None)
           ELSE
            Bind([colon \in {try_consume_or_report(address.l, "KeywordColon")} |->
            Bind([dt \in {parse_data_type_definition(colon, None)} |->
               IF IsNone(dt.r) THEN Ret(dt.l, None)
               ELSE Ret(IF IsSome(dt.r[1].init)
                        THEN accept_diagnostic(dt.l, Diagnostic("unexpected_token_found",
                                                                "Initializer"))
                        ELSE dt.l,
                        Some([reference |-> qualified_reference.r,
                              data_type |-> dt.r[1].decl, address |-> address.r[1]]))])])])])])]))

RECURSIVE parse_config_variables_loop(_, _)
parse_config_variables_loop(l, variables) ==
    IF Tok(l) = "Identifier"
    THEN Bind([configured_var \in {parse_any_in_region(
                try_parse_config_var(parse_any_in_region_enter(l, {"KeywordSemicolon"})))} |->
         Bind([next \in {IF IsSome(configured_var.r)
                         THEN Append(variables, configured_var.r[1])
                         ELSE variables} |->
            IF configured_var.l.pos = l.pos
            THEN Ret([configured_var.l EXCEPT !.stuck = TRUE], next)
            ELSE parse_config_variables_loop(configured_var.l, next)])])
    ELSE Ret(l, variables)

parse_config_variables(l) ==
    parse_any_in_region(
            parse_config_variables_loop( observe_construct(advance(parse_any_in_region_enter(l,
                {"KeywordEndVar"})), "VAR_CONFIG block", "KeywordEndVar"), <<>>))

-----------------------------------------------------------------------------
(* POU headers (parser.rs) *)

PouType(type) == [type |-> type]
MethodType(parent, declaration_kind) ==
    [type |-> "Method", parent |-> parent, property |-> None,
     declaration_kind |-> declaration_kind]

RECURSIVE parse_generics_loop(_, _)
parse_generics_loop(l, generics) ==
    Bind([name \in {parse_identifier(l)} |->
    Bind([colon \in {try_consume_or_report(name.l, "KeywordColon")} |->
    Bind([nature_name \in {parse_identifier(colon)} |->
    Bind([nature \in {parse_type_nature(nature_name.l, nature_name.r[1])} |->
    Bind([bound \in {IF IsNone(name.r) THEN Ret(name.l, generics)
                     ELSE IF IsNone(nature_name.r) THEN Ret(nature_name.l, generics)
                     ELSE Ret(nature.l, Append(generics, [name |-> name.r[1],
                                                         nature |-> nature.r]))} |->
    Bind([comma \in {try_consume(bound.l, "KeywordComma")} |->
    Bind([greater \in {try_consume(comma.l, "OperatorGreater")} |->
       IF ~comma.r THEN Ret(comma.l, bound.r)
       ELSE IF greater.r THEN Ret(greater.l, bound.r)
       ELSE parse_generics_loop(greater.l, bound.r)])])])])])])])

parse_generics(l) ==
    Bind([less \in {try_consume(l, "OperatorLess")} |->
       IF less.r
       THEN parse_any_in_region(
               parse_generics_loop(parse_any_in_region_enter(less.l, {"OperatorGreater"}),
                   <<>>))
       ELSE Ret(less.l, <<>>)])

RECURSIVE parse_interface_declarations_loop(_, _)
parse_interface_declarations_loop(l, declarations) ==
    CASE Tok(l) = "Identifier" ->
            Bind([name \in {parse_identifier(l)} |->
               parse_interface_declarations_loop(name.l, Append(declarations, name.r[1]))])
      [] Tok(l) = "KeywordComma" ->
            parse_interface_declarations_loop(advance(l), declarations)
      [] OTHER -> Ret(l, declarations)

parse_interface_declarations(l) ==
    Bind([implements \in {try_consume(l, "KeywordImplements")} |->
       IF ~implements.r THEN Ret(implements.l, <<>>)
       ELSE IF Tok(implements.l) # "Identifier"
       THEN Ret(accept_diagnostic(implements.l, Diagnostic("E006", "IMPLEMENTS")), <<>>)
       ELSE parse_interface_declarations_loop(implements.l, <<>>)])

\* the EXTENDS clauses of a POU: None as soon as a clause lacks its name
RECURSIVE parse_super_class_loop(_, _)
parse_super_class_loop(l, extensions) ==
    Bind([extends \in {try_consume(l, "KeywordExtends")} |->
    Bind([name \in {parse_identifier(extends.l)} |->
       IF ~extends.r THEN Ret(extends.l, Some(extensions))
       ELSE IF IsNone(name.r) THEN Ret(name.l, None)
       ELSE parse_super_class_loop(name.l, Append(extensions, name.r[1]))])])

RECURSIVE report_multiple_inheritance(_, _)
report_multiple_inheritance(l, n) ==
    IF n <= 0 THEN l
    ELSE report_multiple_inheritance(
            accept_diagnostic(l, Diagnostic("E114", "multiple inheritance")), n - 1)

\* parse_super_class that records the name of the last clause
parse_super_class_keeping_last(l) ==
    Bind([extensions \in {parse_super_class_loop(l, <<>>)} |->
       IF IsNone(extensions.r) THEN Ret(extensions.l, None)
       ELSE Ret(report_multiple_inheritance(extensions.l, Len(extensions.r[1]) - 1),
                IF Len(extensions.r[1]) = 0 THEN None
                ELSE Some(extensions.r[1][Len(extensions.r[1])]))])

parse_super_class(l) ==
    Bind([extensions \in {parse_super_class_loop(l, <<>>)} |->
       IF IsNone(extensions.r) THEN Ret(extensions.l, None)
       ELSE Ret(report_multiple_inheritance(extensions.l, Len(extensions.r[1]) - 1),
                IF Len(extensions.r[1]) = 0 THEN None ELSE Some(extensions.r[1][1]))])

parse_return_type(l) ==
    Bind([colon \in {try_consume(l, "KeywordColon")} |->
    Bind([definition \in {parse_data_type_definition(colon.l, None)} |->
       IF ~colon.r THEN Ret(colon.l, None)
       ELSE IF IsNone(definition.r)
       THEN Ret(accept_diagnostic(definition.l,
                    Diagnostic("unexpected_token_found", "Datatype")), None)
       ELSE
        Bind([declaration \in {definition.r[1].decl} |->
        Bind([m1 \in {IF IsSome(definition.r[1].init)
                      THEN accept_diagnostic(definition.l, Diagnostic("E016", "initializer"))
                      ELSE definition.l} |->
        Bind([m2 \in {IF declaration.kind = "Definition"
                         /\ declaration.data_type.type \in {"EnumType", "StructType"}
                      THEN accept_diagnostic(m1, Diagnostic("E027", declaration.data_type.type))
                      ELSE m1} |->
           Ret(m2, Some(declaration))])])])])])

parse_implementation(l, impl_linkage, pou_type, call_name, type_name, generic) ==
    Bind([statements \in {parse_body_standalone(l)} |->
       Ret(statements.l,
           [name |-> call_name, type_name |-> type_name, linkage |-> impl_linkage,
            pou_type |-> pou_type, statements |-> statements.r, overriding |-> FALSE,
            generic |-> generic, access |-> None])])

\* the variable blocks in front of a body, while the token is one of `allowed`
RECURSIVE parse_variable_blocks(_, _, _)
parse_variable_blocks(l, allowed, variable_blocks) ==
    IF Tok(l) \in allowed
    THEN Bind([block \in {parse_variable_block(l, "Internal")} |->
            parse_variable_blocks(block.l, allowed, Append(variable_blocks, block.r))])
    ELSE Ret(l, variable_blocks)

-----------------------------------------------------------------------------
(* Methods, properties, actions, interfaces (parser.rs) *)

parse_method_body(l, parent, declaration_kind, method_linkage, is_constant) ==
    Bind([observed \in {observe_construct(l, "method", "KeywordEndMethod")} |->
    Bind([reported \in {IF is_constant
                        THEN accept_diagnostic(observed,
                                Diagnostic("const_pragma_is_not_allowed", "method"))
                        ELSE observed} |->
    Bind([eaten \in {advance(reported)} |->
    Bind([access \in {parse_access_modifier(eaten)} |->
    Bind([pou_kind \in {MethodType(parent, declaration_kind)} |->
    Bind([poly_mode \in {parse_polymorphism_mode(access.l, "Method")} |->
    Bind([overriding \in {try_consume(poly_mode.l, "KeywordOverride")} |->
    Bind([name \in {parse_identifier(overriding.l)} |->
       IF IsNone(name.r) THEN Ret(name.l, None)
       ELSE
        Bind([generics \in {parse_generics(name.l)} |->
        Bind([return_type \in {parse_return_type(generics.l)} |->
        Bind([variable_blocks \in {
                parse_variable_blocks(return_type.l,
                    {"KeywordVar", "KeywordVarInput", "KeywordVarOutput",
                     "KeywordVarInOut", "KeywordVarTemp"}, <<>>)} |->
        Bind([call_name \in {qualified_name(parent, name.r[1])} |->
        Bind([implementation \in {
                parse_implementation(variable_blocks.l, method_linkage, pou_kind,
                                     call_name, call_name, Len(generics.r) > 0)} |->
           Ret(implementation.l,
               Some([pou |-> [name |-> call_name, kind |-> pou_kind,
                              variable_blocks |-> variable_blocks.r,
                              return_type |-> return_type.r, poly_mode |-> poly_mode.r,
                              generics |-> generics.r, linkage |-> method_linkage,
                              super_class |-> None, interfaces |-> <<>>,
                              properties |-> <<>>, is_const |-> is_constant],
                     implementation |-> [implementation.r EXCEPT
                                            !.overriding = overriding.r,
                                            !.access = Some(access.r)]]))])])])])])])])])])])])])])

parse_method(l, parent, declaration_kind, method_linkage, is_constant) ==
    log_call("parse_method", [linkage |-> method_linkage, constant |-> is_constant], l,
    parse_any_in_region(
            parse_method_body(parse_any_in_region_enter(l, {"KeywordEndMethod"}), parent,
                declaration_kind, method_linkage, is_constant)))

\* variable blocks written directly under a property: parsed, reported, dropped
RECURSIVE parse_property_illegal_blocks(_)
parse_property_illegal_blocks(l) ==
    IF is_var(Tok(l))
    THEN Bind([block \in {parse_variable_block(l, "Internal")} |->
            parse_property_illegal_blocks(
                accept_diagnostic(block.l, Diagnostic("E007", "variable block")))])
    ELSE l

RECURSIVE parse_property_accessors(_, _)
parse_property_accessors(l, implementations) ==
    IF Tok(l) \in {"KeywordGet", "KeywordSet"}
    THEN Bind([kind \in {IF Tok(l) = "KeywordGet" THEN "Get" ELSE "Set"} |->
         Bind([end_keyword \in {IF kind = "Get" THEN "KeywordEndGet" ELSE "KeywordEndSet"} |->
         Bind([variable_blocks \in {
                parse_variable_blocks(advance(l), VarTokens, <<>>)} |->
         Bind([statements \in {
                parse_any_in_region(
                        parse_body_standalone( observe_construct(parse_any_in_region_enter(variable_blocks.l,
                            {end_keyword}), "accessor", end_keyword)))} |->
            parse_property_accessors(statements.l,
                Append(implementations,
                       [kind |-> kind, variable_blocks |-> variable_blocks.r,
                        body |-> statements.r]))])])])])
    ELSE Ret(l, implementations)

\* parse_property that returns as soon as the name or the datatype is missing
parse_property_returning_early(l) ==
    log_call("parse_property", None, l,
    Bind([start \in {observe_construct(advance(l), "property", "KeywordEndProperty")} |->
    Bind([identifier \in {parse_identifier(start)} |->
    Bind([m1 \in {IF IsNone(identifier.r)
                  THEN accept_diagnostic(identifier.l,
                            Diagnostic("property", "missing a name"))
                  ELSE identifier.l} |->
    Bind([datatype \in {parse_return_type(m1)} |->
    Bind([m2 \in {IF IsNone(datatype.r)
                  THEN accept_diagnostic(datatype.l,
                            Diagnostic("property", "missing a datatype"))
                  ELSE datatype.l} |->
       IF IsNone(identifier.r) \/ IsNone(datatype.r) THEN Ret(m2, None)
       ELSE
        Bind([m3 \in {parse_property_illegal_blocks(m2)} |->
        Bind([implementations \in {parse_property_accessors(m3, <<>>)} |->
        Bind([m4 \in {try_consume_or_report(implementations.l, "KeywordEndProperty")} |->
           Ret(m4, Some([name |-> identifier.r[1], datatype |-> datatype.r[1],
                         implementations |-> implementations.r]))])])])])])])])]))

parse_property(l) ==
    log_call("parse_property", None, l,
    Bind([start \in {observe_construct(advance(l), "property", "KeywordEndProperty")} |->
    Bind([identifier \in {parse_identifier(start)} |->
    Bind([m1 \in {IF IsNone(identifier.r)
                  THEN accept_diagnostic(identifier.l,
                            Diagnostic("property", "missing a name"))
                  ELSE identifier.l} |->
    Bind([datatype \in {parse_return_type(m1)} |->
    Bind([m2 \in {IF IsNone(datatype.r)
                  THEN accept_diagnostic(datatype.l,
                            Diagnostic("property", "missing a datatype"))
                  ELSE datatype.l} |->
    Bind([m3 \in {parse_property_illegal_blocks(m2)} |->
    Bind([implementations \in {parse_property_accessors(m3, <<>>)} |->
    Bind([m4 \in {try_consume_or_report(implementations.l, "KeywordEndProperty")} |->
       IF IsNone(identifier.r) \/ IsNone(datatype.r) THEN Ret(m4, None)
       ELSE Ret(m4, Some([name |-> identifier.r[1], datatype |-> datatype.r[1],
                          implementations |-> implementations.r]))])])])])])])])]))

ActionClosingTokens ==
    {"KeywordEndAction", "KeywordEndProgram", "KeywordEndFunction",
     "KeywordEndFunctionBlock"}

\* the rest of parse_action once container and name are known
parse_action_implementation(l, action_linkage, container, name) ==
    Bind([implementation \in {
            parse_implementation(l, action_linkage, PouType("Action"),
                                 qualified_name(container, name), container, FALSE)} |->
    Bind([m \in {implementation.l} |->
       Ret(IF m.last_token \in ActionClosingTokens /\ m.last_token # "KeywordEndAction"
           THEN accept_diagnostic(m, Diagnostic("unexpected_token_found",
                                                "KeywordEndAction"))
           ELSE m,
           Some(implementation.r))])])

parse_action_body(l, action_linkage, container) ==
    Bind([name_or_container \in {slice_and_advance(
                                     observe_construct(l, "action", "KeywordEndAction"))} |->
       IF IsSome(container)
       THEN parse_action_implementation(name_or_container.l, action_linkage,
                                        container[1], name_or_container.r)
       ELSE
        Bind([dot \in {expect_token(name_or_container.l, "KeywordDot")} |->
        Bind([ident \in {expect_token(advance(dot.l), "Identifier")} |->
        Bind([name \in {slice_and_advance(ident.l)} |->
           IF ~dot.r THEN Ret(dot.l, None)
           ELSE IF ~ident.r THEN Ret(ident.l, None)
           ELSE parse_action_implementation(name.l, action_linkage,
                                            name_or_container.r, name.r)])])])])

parse_action(l, action_linkage, container) ==
    parse_any_in_region(
            parse_action_body(parse_any_in_region_enter(advance(l), ActionClosingTokens),
                action_linkage, container))

RECURSIVE parse_actions_loop(_, _, _, _)
parse_actions_loop(l, actions_linkage, container, impls) ==
    IF Tok(l) # "KeywordEndActions" /\ ~is_end_of_stream(l)
    THEN IF Tok(l) = "KeywordAction"
         THEN Bind([implementation \in {parse_action(l, actions_linkage, Some(container))} |->
                 parse_actions_loop(implementation.l, actions_linkage, container,
                                    impls \o implementation.r)])
         ELSE Ret(accept_diagnostic(l, Diagnostic("unexpected_token_found",
                                                  "KeywordAction")), impls)
    ELSE Ret(l, impls)

parse_actions_body(l, actions_linkage, default_container) ==
    Bind([eaten \in {observe_construct(advance(l), "ACTIONS block", "KeywordEndActions")} |->
    Bind([container \in {IF Tok(eaten) = "Identifier" THEN slice_and_advance(eaten)
                         ELSE Ret(eaten, default_container)} |->
       parse_actions_loop(container.l, actions_linkage, container.r, <<>>)])])

\* parse_actions without its region: END_ACTIONS is left to the caller
parse_actions_unregioned(l, actions_linkage, default_container) ==
    parse_actions_body(l, actions_linkage, default_container)

parse_actions(l, actions_linkage, default_container) ==
    parse_any_in_region(
            parse_actions_body(parse_any_in_region_enter(l, {"KeywordEndActions"}),
                actions_linkage, default_container))

RECURSIVE parse_interface_extensions(_, _)
parse_interface_extensions(l, extensions) ==
    IF Tok(l) = "Identifier"
    THEN Bind([name \in {parse_identifier(l)} |->
            parse_interface_extensions(try_consume(name.l, "KeywordComma").l,
                                       Append(extensions, name.r[1]))])
    ELSE Ret(l, extensions)

\* one E113 for every accessor of the property that has a body
RECURSIVE report_default_implementations(_, _)
report_default_implementations(l, implementations) ==
    IF Len(implementations) = 0 THEN l
    ELSE report_default_implementations(
            IF Len(Head(implementations).body) > 0
            THEN accept_diagnostic(l, Diagnostic("E113", "property"))
            ELSE l,
            Tail(implementations))

\* parse_interface_members that reports a method with a body and leaves it out
RECURSIVE parse_interface_members_rejecting(_, _, _)
parse_interface_members_rejecting(l, name, acc) ==
    CASE Tok(l) = "KeywordMethod" ->
            Bind([method \in {parse_method(l, name, "Abstract", "Internal", FALSE)} |->
               IF IsNone(method.r) THEN parse_interface_members_rejecting(method.l, name, acc)
               ELSE IF Len(method.r[1].implementation.statements) > 0
               THEN parse_interface_members_rejecting(
                        accept_diagnostic(method.l, Diagnostic("E113", "method")), name, acc)
               ELSE parse_interface_members_rejecting(method.l, name,
                        [acc EXCEPT !.methods = Append(@, method.r[1].pou),
                                    !.implementations =
                                        Append(@, method.r[1].implementation)])])
      [] Tok(l) = "KeywordProperty" ->
            Bind([property \in {parse_property(l)} |->
               IF IsNone(property.r)
               THEN parse_interface_members_rejecting(property.l, name, acc)
               ELSE parse_interface_members_rejecting(
                        report_default_implementations(property.l,
                            property.r[1].implementations),
                        name,
                        [acc EXCEPT !.properties = Append(@, property.r[1])])])
      [] OTHER -> Ret(l, acc)

\* acc = [methods, implementations, properties]
RECURSIVE parse_interface_members(_, _, _)
parse_interface_members(l, name, acc) ==
    CASE Tok(l) = "KeywordMethod" ->
            Bind([method \in {parse_method(l, name, "Abstract", "Internal", FALSE)} |->
               IF IsNone(method.r) THEN parse_interface_members(method.l, name, acc)
               ELSE parse_interface_members(
                        IF Len(method.r[1].implementation.statements) > 0
                        THEN accept_diagnostic(method.l, Diagnostic("E113", "method"))
                        ELSE method.l,
                        name,
                        [acc EXCEPT !.methods = Append(@, method.r[1].pou),
                                    !.implementations =
                                        Append(@, method.r[1].implementation)])])
      [] Tok(l) = "KeywordProperty" ->
            Bind([property \in {parse_property(l)} |->
               IF IsNone(property.r) THEN parse_interface_members(property.l, name, acc)
               ELSE parse_interface_members(
                        report_default_implementations(property.l,
                            property.r[1].implementations),
                        name,
                        [acc EXCEPT !.properties = Append(@, property.r[1])])])
      [] OTHER -> Ret(l, acc)

\* returns [interface, implementations]
parse_interface(l) ==
    log_call("parse_interface", None, l,
    Bind([start \in {observe_construct(try_consume_or_report(l, "KeywordInterface"),
                                       "interface", "KeywordEndInterface")} |->
    Bind([name \in {IF Tok(start) = "Identifier"
                    THEN Bind([id \in {parse_identifier(start)} |->
                                                          Ret(id.l, id.r[1])])
                    ELSE Ret(accept_diagnostic(start, Diagnostic("E006", "interface name")),
                             "")} |->
    Bind([extends \in {try_consume(name.l, "KeywordExtends")} |->
    Bind([extensions \in {IF extends.r THEN parse_interface_extensions(extends.l, <<>>)
                          ELSE Ret(extends.l, <<>>)} |->
    Bind([members \in {parse_interface_members(extensions.l, name.r,
                            [methods |-> <<>>, implementations |-> <<>>,
                             properties |-> <<>>])} |->
       Ret(try_consume_or_report(members.l, "KeywordEndInterface"),
           [interface |-> [name |-> name.r, methods |-> members.r.methods,
                           extensions |-> extensions.r,
                           properties |-> members.r.properties],
            implementations |-> members.r.implementations])])])])])]))

-----------------------------------------------------------------------------
(* POUs and TYPE blocks (parser.rs) *)

PouClosingTokens(expected_end_token) ==
    {expected_end_token, "KeywordEndAction", "KeywordEndProgram", "KeywordEndFunction",
     "KeywordEndFunctionBlock", "KeywordEndClass"}

\* the methods and properties of a POU; acc = [impl_pous, implementations, properties]
RECURSIVE parse_pou_members(_, _, _, _, _)
parse_pou_members(l, kind, name, pou_linkage, acc) ==
    IF Tok(l) \in {"KeywordMethod", "KeywordProperty", "PropertyConstant"}
    THEN Bind([m \in {IF kind \notin {"FunctionBlock", "Class", "Program"}
                      THEN accept_diagnostic(l,
                              Diagnostic("cannot be declared in",
                                         IF Tok(l) = "KeywordProperty" THEN "Properties"
                                         ELSE "Methods"))
                      ELSE l} |->
            IF Tok(m) = "KeywordProperty"
            THEN Bind([property \in {parse_property(m)} |->
                    parse_pou_members(property.l, kind, name, pou_linkage,
                        [acc EXCEPT !.properties = @ \o property.r])])
            ELSE Bind([is_const \in {try_consume(m, "PropertyConstant")} |->
                 Bind([method \in {parse_method(is_const.l, name, "Concrete", pou_linkage,
                                                is_const.r)} |->
                    IF IsNone(method.r)
                    THEN parse_pou_members(method.l, kind, name, pou_linkage, acc)
                    ELSE parse_pou_members(method.l, kind, name, pou_linkage,
                            [acc EXCEPT !.impl_pous = Append(@, method.r[1].pou),
                                        !.implementations =
                                            Append(@, method.r[1].implementation)])])])])
    ELSE Ret(l, acc)

\* parse_pou_scoped putting the primary Implementation in front of the methods'
parse_pou_scoped_primary_first(l, kind, pou_linkage, is_constant, poly_mode, name, generics) ==
    Bind([super_class \in {parse_super_class(l)} |->
    Bind([interfaces \in {parse_interface_declarations(super_class.l)} |->
    Bind([return_type \in {parse_return_type(interfaces.l)} |->
    Bind([variable_blocks \in {
            parse_variable_blocks(return_type.l,
                {"KeywordVar", "KeywordVarInput", "KeywordVarOutput", "KeywordVarInOut",
                 "KeywordVarTemp", "KeywordVarExternal"}, <<>>)} |->
    Bind([members \in {parse_pou_members(variable_blocks.l, kind, name, pou_linkage,
                            [impl_pous |-> <<>>, implementations |-> <<>>,
                             properties |-> <<>>])} |->
    Bind([implementation \in {parse_implementation(members.l, pou_linkage, PouType(kind),
                                                   name, name, Len(generics) > 0)} |->
    Bind([pou \in {[name |-> name, kind |-> PouType(kind),
                    variable_blocks |-> variable_blocks.r, return_type |-> return_type.r,
                    poly_mode |-> poly_mode, generics |-> generics, linkage |-> pou_linkage,
                    super_class |-> super_class.r, interfaces |-> interfaces.r,
                    properties |-> members.r.properties, is_const |-> is_constant]} |->
       Ret(implementation.l,
           [pous |-> <<pou>> \o members.r.impl_pous,
            implementations |-> <<implementation.r>> \o members.r.implementations])])])])])])])])

\* what parse_pou does under with_scope; returns [pous, implementations]
parse_pou_scoped(l, kind, pou_linkage, is_constant, poly_mode, name, generics) ==
    Bind([super_class \in {parse_super_class(l)} |->
    Bind([interfaces \in {parse_interface_declarations(super_class.l)} |->
    Bind([return_type \in {parse_return_type(interfaces.l)} |->
    Bind([variable_blocks \in {
            parse_variable_blocks(return_type.l,
                {"KeywordVar", "KeywordVarInput", "KeywordVarOutput", "KeywordVarInOut",
                 "KeywordVarTemp", "KeywordVarExternal"}, <<>>)} |->
    Bind([members \in {parse_pou_members(variable_blocks.l, kind, name, pou_linkage,
                            [impl_pous |-> <<>>, implementations |-> <<>>,
                             properties |-> <<>>])} |->
    Bind([implementation \in {parse_implementation(members.l, pou_linkage, PouType(kind),
                                                   name, name, Len(generics) > 0)} |->
    Bind([pou \in {[name |-> name, kind |-> PouType(kind),
                    variable_blocks |-> variable_blocks.r, return_type |-> return_type.r,
                    poly_mode |-> poly_mode, generics |-> generics, linkage |-> pou_linkage,
                    super_class |-> super_class.r, interfaces |-> interfaces.r,
                    properties |-> members.r.properties, is_const |-> is_constant]} |->
       Ret(implementation.l,
           [pous |-> <<pou>> \o members.r.impl_pous,
            implementations |-> Append(members.r.implementations, implementation.r)])])])])])])])])

\* parse_pou's closure giving the whole POU up when its name is missing
parse_pou_body_requiring_name(l, kind, pou_linkage, expected_end_token, is_constant) ==
    Bind([poly_mode \in {parse_polymorphism_mode(l, kind)} |->
    Bind([identifier \in {parse_identifier(poly_mode.l)} |->
       IF IsNone(identifier.r)
       THEN Ret(identifier.l, [pous |-> <<>>, implementations |-> <<>>])
       ELSE Bind([generics \in {parse_generics(identifier.l)} |->
               with_scope(
                    parse_pou_scoped(with_scope_enter(generics.l, identifier.r[1]), kind,
                        pou_linkage, is_constant, poly_mode.r, identifier.r[1],
                        generics.r))])])])

parse_pou_body(l, kind, pou_linkage, expected_end_token, is_constant) ==
    Bind([observed \in {observe_construct(l, "POU", expected_end_token)} |->
    Bind([poly_mode \in {parse_polymorphism_mode(observed, kind)} |->
    Bind([identifier \in {parse_identifier(poly_mode.l)} |->
    Bind([name \in {IF IsSome(identifier.r) THEN identifier.r[1] ELSE ""} |->
    Bind([generics \in {parse_generics(identifier.l)} |->
       with_scope(
            parse_pou_scoped(with_scope_enter(generics.l, name), kind, pou_linkage,
                is_constant, poly_mode.r, name, generics.r))])])])])])

\* parse_pou that appends the Pous and forgets the Implementations
parse_pou_without_implementations(l, u, kind, pou_linkage, expected_end_token, is_constant) ==
    Bind([result \in {parse_any_in_region(
                parse_pou_body(parse_any_in_region_enter(advance(l),
                    PouClosingTokens(expected_end_token)), kind, pou_linkage,
                    expected_end_token, is_constant))} |->
       Ret(result.l, [u EXCEPT !.pous = @ \o result.r.pous])])

\* returns the unit with the POU's Pous and Implementations appended
parse_pou(l, u, kind, pou_linkage, expected_end_token, is_constant) ==
    Bind([reported \in {IF is_constant /\ pou_linkage # "BuiltIn"
                        THEN accept_diagnostic(l,
                                Diagnostic("const_pragma_is_not_allowed", "POU"))
                        ELSE l} |->
    Bind([closing_tokens \in {PouClosingTokens(expected_end_token)} |->
    Bind([result \in {parse_any_in_region(
                    parse_pou_body(parse_any_in_region_enter(advance(reported),
                        closing_tokens), kind, pou_linkage, expected_end_token, is_constant))} |->
    Bind([m \in {result.l} |->
    Bind([checked \in {IF m.last_token \in closing_tokens /\ m.last_token # expected_end_token
                       THEN accept_diagnostic(m, Diagnostic("unexpected_token_found",
                                                            expected_end_token))
                       ELSE m} |->
       Ret(checked,
           [u EXCEPT !.pous = @ \o result.r.pous,
                     !.implementations = @ \o result.r.implementations])])])])])])

RECURSIVE parse_type_loop(_, _)
parse_type_loop(l, declarations) ==
    IF ~closes_open_region(l, Tok(l))
    THEN Bind([name \in {slice_and_advance(l)} |->
         Bind([colon \in {try_consume_or_report(name.l, "KeywordColon")} |->
         Bind([result \in {parse_full_data_type_definition(colon, Some(name.r))} |->
            parse_type_loop(result.l,
                IF IsSome(result.r) /\ result.r[1].decl.kind = "Definition"
                THEN Append(declarations,
                            [data_type |-> result.r[1].decl.data_type,
                             initializer |-> result.r[1].init,
                             scope |-> result.l.scope])
                ELSE declarations)])])])
    ELSE Ret(l, declarations)

parse_type(l) ==
    parse_any_in_region(
            parse_type_loop(observe_construct(parse_any_in_region_enter(advance(l),
                {"KeywordEndType"}), "TYPE block", "KeywordEndType"), <<>>))

-----------------------------------------------------------------------------
(* parse(): the top-level dispatcher loop, one action per branch of the     *)
(* match on lexer.token (parser.rs)                                         *)

NewUnit ==
    [pous |-> <<>>, implementations |-> <<>>, user_types |-> <<>>,
     interfaces |-> <<>>, global_vars |-> <<>>, var_config |-> <<>>]

\* last_pou without the filter on the kind: the last Pou, methods included
last_pou_of_any_kind(u) ==
    IF Len(u.pous) = 0 THEN "__unknown__" ELSE u.pous[Len(u.pous)].name

\* the name of the last Pou that is a program, function, function block or
\* class, "__unknown__" when there is none
last_pou(u) ==
    Bind([candidates \in {{i \in 1..Len(u.pous) :
                              u.pous[i].kind.type \in {"Program", "Function",
                                                       "FunctionBlock", "Class"}}} |->
       IF candidates = {} THEN "__unknown__"
       ELSE u.pous[CHOOSE i \in candidates : \A j \in candidates : j <= i].name])

PouParams(t) ==
    CASE t = "KeywordProgram" -> [kind |-> "Program", end |-> "KeywordEndProgram"]
      [] t = "KeywordClass" -> [kind |-> "Class", end |-> "KeywordEndClass"]
      [] t = "KeywordFunction" -> [kind |-> "Function", end |-> "KeywordEndFunction"]
      [] OTHER -> [kind |-> "FunctionBlock", end |-> "KeywordEndFunctionBlock"]

\* what the history records of the item dispatched in this step
Item ==
    [token |-> Tok(lexer), pos |-> lexer.pos, external |-> hist.external_pragma,
     constant |-> hist.constant_pragma, pous |-> Len(unit.pous),
     implementations |-> Len(unit.implementations),
     global_vars |-> Len(unit.global_vars)]

\* the end of an iteration whose branch fell through the match:
\* `linkage = lnk;` and back to the head of the loop
EndIteration(l, u, c) ==
    /\ lexer' = l
    /\ unit' = u
    /\ constant' = c
    /\ linkage' = lnk
    /\ hist' = [hist EXCEPT !.items = Append(@, Item),
                            !.external_pragma = FALSE, !.constant_pragma = FALSE]
    /\ UNCHANGED <<tokens, lnk, pc, parsed, file_result>>

DispatchExternal ==
    /\ pc = "loop" /\ Tok(lexer) = "PropertyExternal"
    /\ linkage' = "External"
    /\ lexer' = advance(lexer)
    /\ hist' = [hist EXCEPT !.external_pragma = TRUE]
    /\ UNCHANGED <<tokens, lnk, unit, constant, pc, parsed, file_result>>

\* the constant pragma falling through to `linkage = lnk`
DispatchConstantResetsLinkage ==
    /\ pc = "loop" /\ Tok(lexer) = "PropertyConstant"
    /\ constant' = TRUE
    /\ lexer' = advance(lexer)
    /\ linkage' = lnk
    /\ hist' = [hist EXCEPT !.constant_pragma = TRUE]
    /\ UNCHANGED <<tokens, lnk, unit, pc, parsed, file_result>>

DispatchConstant ==
    /\ pc = "loop" /\ Tok(lexer) = "PropertyConstant"
    /\ constant' = TRUE
    /\ lexer' = advance(lexer)
    /\ hist' = [hist EXCEPT !.constant_pragma = TRUE]
    /\ UNCHANGED <<tokens, lnk, unit, linkage, pc, parsed, file_result>>

\* the dispatcher adding the Implementations of the interface methods to the unit
DispatchInterfaceKeepingImplementations ==
    /\ pc = "loop" /\ Tok(lexer) = "KeywordInterface"
    /\ \E r \in {parse_interface(lexer)} :
          EndIteration(r.l, [unit EXCEPT !.interfaces = Append(@, r.r.interface),
                                         !.implementations = @ \o r.r.implementations],
                       constant)

DispatchInterface ==
    /\ pc = "loop" /\ Tok(lexer) = "KeywordInterface"
    /\ \E r \in {parse_interface(lexer)} :
          EndIteration(r.l, [unit EXCEPT !.interfaces = Append(@, r.r.interface)],
                       constant)

DispatchVarGlobal ==
    /\ pc = "loop" /\ Tok(lexer) = "KeywordVarGlobal"
    /\ \E r \in {parse_variable_block(lexer, linkage)} :
          EndIteration(r.l, [unit EXCEPT !.global_vars = Append(@, r.r)], constant)

DispatchVarConfig ==
    /\ pc = "loop" /\ Tok(lexer) = "KeywordVarConfig"
    /\ \E r \in {parse_config_variables(lexer)} :
          EndIteration(r.l, [unit EXCEPT !.var_config = @ \o r.r], constant)

DispatchPou ==
    /\ pc = "loop"
    /\ Tok(lexer) \in {"KeywordProgram", "KeywordClass", "KeywordFunction",
                       "KeywordFunctionBlock"}
    /\ \E params \in {PouParams(Tok(lexer))} :
       \E r \in {parse_pou(lexer, unit, params.kind, linkage, params.end, constant)} :
          EndIteration(r.l, r.r, FALSE)

DispatchAction ==
    /\ pc = "loop" /\ Tok(lexer) = "KeywordAction"
    /\ \E r \in {parse_action(lexer, linkage, None)} :
          EndIteration(r.l, [unit EXCEPT !.implementations = @ \o r.r], constant)

DispatchActions ==
    /\ pc = "loop" /\ Tok(lexer) = "KeywordActions"
    /\ \E r \in {parse_actions(lexer, linkage, last_pou(unit))} :
          EndIteration(r.l, [unit EXCEPT !.implementations = @ \o r.r], constant)

DispatchType ==
    /\ pc = "loop" /\ Tok(lexer) = "KeywordType"
    /\ \E r \in {parse_type(lexer)} :
          EndIteration(r.l, [unit EXCEPT !.user_types = @ \o r.r], constant)

DispatchReturn ==
    /\ pc = "loop" /\ Tok(lexer) \in {"KeywordEndActions", "End"}
    /\ parsed' = Some([unit |-> unit, errors |-> lexer.diagnostics])
    /\ pc' = "returned"
    /\ UNCHANGED <<tokens, lnk, lexer, unit, linkage, constant, file_result, hist>>

StartTokens ==
    {"PropertyExternal", "PropertyConstant", "KeywordInterface", "KeywordVarGlobal",
     "KeywordVarConfig", "KeywordProgram", "KeywordClass", "KeywordFunction",
     "KeywordFunctionBlock", "KeywordAction", "KeywordActions", "KeywordType",
     "KeywordEndActions", "End"}

\* the unrecognized-token branch without lexer.advance()
DispatchUnexpectedStays ==
    /\ pc = "loop" /\ Tok(lexer) \notin StartTokens
    /\ EndIteration(
            accept_diagnostic(lexer, Diagnostic("unexpected_token_found", "StartKeyword")),
            unit, constant)

DispatchUnexpected ==
    /\ pc = "loop" /\ Tok(lexer) \notin StartTokens
    /\ EndIteration(
            advance(accept_diagnostic(lexer,
                        Diagnostic("unexpected_token_found", "StartKeyword"))),
            unit, constant)

-----------------------------------------------------------------------------
(* parse_file(): what it does with the value parse() returned.  The         *)
(* severity diagnostician.handle reports is an input of the step.           *)

Severities == {"Info", "Warning", "Error"}

\* the severities diagnostician.handle can report for a log
HandledSeverities(errors) ==
    IF Len(errors) = 0 THEN {"Info"} ELSE Severities

\* parse_file failing on every severity above Info
parse_file_result_strict(parsed_unit, errors, severity) ==
    IF severity # "Info"
    THEN [ok |-> FALSE, sub_diagnostics |-> errors]
    ELSE [ok |-> TRUE, unit |-> parsed_unit]

parse_file_result(parsed_unit, errors, severity) ==
    IF severity = "Error"
    THEN [ok |-> FALSE, sub_diagnostics |-> errors]
    ELSE [ok |-> TRUE, unit |-> parsed_unit]

ParseFileReturn ==
    /\ pc = "returned"
    /\ \E severity \in HandledSeverities(parsed[1].errors) :
          /\ file_result' = Some(parse_file_result(parsed[1].unit, parsed[1].errors,
                                                   severity))
          /\ hist' = [hist EXCEPT !.severity = severity]
    /\ pc' = "done"
    /\ UNCHANGED <<tokens, lnk, lexer, unit, linkage, constant, parsed>>

-----------------------------------------------------------------------------
(* Inputs *)

Linkages == {"Internal", "External", "BuiltIn"}

RECURSIVE Flatten(_)
Flatten(segments) ==
    IF Len(segments) = 0 THEN <<>> ELSE Head(segments) \o Flatten(Tail(segments))

MaxItems == 2

\* The pieces token streams are made of: declarations of every top-level
\* kind, well formed and malformed, pragmas and stray tokens. These are the
\* pieces every specification draws from.
SharedSegments ==
    { <<"PropertyExternal">>,
      <<"PropertyConstant">>,
      \* PROGRAM foo END_PROGRAM
      <<"KeywordProgram", "foo", "KeywordEndProgram">>,
      \* FUNCTION foo : INT VAR x : INT; END_VAR x; END_FUNCTION
      <<"KeywordFunction", "foo", "KeywordColon", "INT", "KeywordVar", "x",
        "KeywordColon", "INT", "KeywordSemicolon", "KeywordEndVar", "x",
        "KeywordSemicolon", "KeywordEndFunction">>,
      \* FUNCTION_BLOCK bar METHOD x END_METHOD END_FUNCTION_BLOCK
      <<"KeywordFunctionBlock", "bar", "KeywordMethod", "x", "KeywordEndMethod",
        "KeywordEndFunctionBlock">>,
      \* INTERFACE foo METHOD x END_METHOD END_INTERFACE
      <<"KeywordInterface", "foo", "KeywordMethod", "x", "KeywordEndMethod",
        "KeywordEndInterface">>,
      \* TYPE x : (foo, bar); END_TYPE
      <<"KeywordType", "x", "KeywordColon", "KeywordParensOpen", "foo", "KeywordComma",
        "bar", "KeywordParensClose", "KeywordSemicolon", "KeywordEndType">>,
      \* VAR_GLOBAL x : INT; END_VAR
      <<"KeywordVarGlobal", "x", "KeywordColon", "INT", "KeywordSemicolon",
        "KeywordEndVar">>,
      \* VAR_CONFIG x AT %IX1 : INT; END_VAR
      <<"KeywordVarConfig", "x", "KeywordAt", "%IX", "1", "KeywordColon", "INT",
        "KeywordSemicolon", "KeywordEndVar">>,
      \* ACTION foo.x END_ACTION
      <<"KeywordAction", "foo", "KeywordDot", "x", "KeywordEndAction">>,
      \* ACTIONS ACTION x END_ACTION END_ACTIONS
      <<"KeywordActions", "KeywordAction", "x", "KeywordEndAction",
        "KeywordEndActions">>,
      \* PROGRAM END_PROGRAM: the name is missing
      <<"KeywordProgram", "KeywordEndProgram">>,
      \* FUNCTION foo END_PROGRAM: the wrong end keyword
      <<"KeywordFunction", "foo", "KeywordEndProgram">>,
      \* PROGRAM foo PROPERTY : INT END_PROPERTY END_PROGRAM: property without name
      <<"KeywordProgram", "foo", "KeywordProperty", "KeywordColon", "INT",
        "KeywordEndProperty", "KeywordEndProgram">>,
      \* PROGRAM foo PROPERTY x END_PROPERTY END_PROGRAM: property without datatype
      <<"KeywordProgram", "foo", "KeywordProperty", "x", "KeywordEndProperty",
        "KeywordEndProgram">>,
      \* PROGRAM foo PROPERTY x : INT GET y END_PROPERTY END_PROGRAM: open accessor
      <<"KeywordProgram", "foo", "KeywordProperty", "x", "KeywordColon", "INT",
        "KeywordGet", "y", "KeywordEndProperty", "KeywordEndProgram">>,
      <<"foo">>,
      <<"KeywordEndActions">> }

\* pragma pairs, malformed declarations and stray tokens
Segments ==
    SharedSegments \cup
    { <<"PropertyExternal", "PropertyConstant">>,
      <<"PropertyConstant", "KeywordSemicolon">>,
      \* CLASS foo PROPERTY x : INT GET END_GET END_PROPERTY END_CLASS
      <<"KeywordClass", "foo", "KeywordProperty", "x", "KeywordColon", "INT",
        "KeywordGet", "KeywordEndGet", "KeywordEndProperty", "KeywordEndClass">>,
      \* FUNCTION foo : END_FUNCTION: no type after the colon
      <<"KeywordFunction", "foo", "KeywordColon", "KeywordEndFunction">>,
      \* FUNCTION_BLOCK bar METHOD END_METHOD END_FUNCTION_BLOCK: method without name
      <<"KeywordFunctionBlock", "bar", "KeywordMethod", "KeywordEndMethod",
        "KeywordEndFunctionBlock">>,
      \* INTERFACE foo METHOD x y END_INTERFACE: the method is not closed
      <<"KeywordInterface", "foo", "KeywordMethod", "x", "y", "KeywordEndInterface">>,
      \* VAR_CONFIG x : INT; END_VAR: no address
      <<"KeywordVarConfig", "x", "KeywordColon", "INT", "KeywordSemicolon",
        "KeywordEndVar">>,
      \* VAR_GLOBAL x AT %IX : INT; END_VAR: no integer in the address
      <<"KeywordVarGlobal", "x", "KeywordAt", "%IX", "KeywordColon", "INT",
        "KeywordSemicolon", "KeywordEndVar">>,
      \* ACTION foo END_ACTION: no container
      <<"KeywordAction", "foo", "KeywordEndAction">>,
      \* TYPE x : without type and end
      <<"KeywordType", "x", "KeywordColon">>,
      \* unterminated PROGRAM foo
      <<"KeywordProgram", "foo">>,
      <<"KeywordSemicolon">>,
      <<"KeywordEndProgram">> }

\* declarations with members: EXTENDS clauses, properties, methods and
\* accessors with bodies, blocks of actions, types over an identifier
DeclarationSegments ==
    SharedSegments \cup
    { \* ACTIONS ACTION x END_ACTION ACTION y END_ACTION END_ACTIONS
      <<"KeywordActions", "KeywordAction", "x", "KeywordEndAction", "KeywordAction",
        "y", "KeywordEndAction", "KeywordEndActions">>,
      \* FUNCTION_BLOCK foo EXTENDS bar EXTENDS x EXTENDS y END_FUNCTION_BLOCK
      <<"KeywordFunctionBlock", "foo", "KeywordExtends", "bar", "KeywordExtends", "x",
        "KeywordExtends", "y", "KeywordEndFunctionBlock">>,
      \* CLASS foo EXTENDS bar EXTENDS END_CLASS: the second clause has no name
      <<"KeywordClass", "foo", "KeywordExtends", "bar", "KeywordExtends",
        "KeywordEndClass">>,
      \* ACTION foo.x END_PROGRAM: the wrong end keyword
      <<"KeywordAction", "foo", "KeywordDot", "x", "KeywordEndProgram">>,
      \* INTERFACE foo METHOD x y; END_METHOD
      \*   PROPERTY x : INT GET y; END_GET SET END_SET END_PROPERTY END_INTERFACE
      <<"KeywordInterface", "foo", "KeywordMethod", "x", "y", "KeywordSemicolon",
        "KeywordEndMethod", "KeywordProperty", "x", "KeywordColon", "INT", "KeywordGet",
        "y", "KeywordSemicolon", "KeywordEndGet", "KeywordSet", "KeywordEndSet",
        "KeywordEndProperty", "KeywordEndInterface">>,
      \* INTERFACE foo PROPERTY : INT GET y; END_GET END_PROPERTY END_INTERFACE:
      \* property without name
      <<"KeywordInterface", "foo", "KeywordProperty", "KeywordColon", "INT",
        "KeywordGet", "y", "KeywordSemicolon", "KeywordEndGet", "KeywordEndProperty",
        "KeywordEndInterface">>,
      \* PROGRAM foo PROPERTY x : INT VAR y : INT; END_VAR GET END_GET END_PROPERTY
      \* END_PROGRAM: a variable block directly under the property
      <<"KeywordProgram", "foo", "KeywordProperty", "x", "KeywordColon", "INT",
        "KeywordVar", "y", "KeywordColon", "INT", "KeywordSemicolon", "KeywordEndVar",
        "KeywordGet", "KeywordEndGet", "KeywordEndProperty", "KeywordEndProgram">>,
      \* PROGRAM foo PROPERTY x VAR y : INT; END_VAR GET END_GET END_PROPERTY
      \* END_PROGRAM: no datatype, and a variable block directly under the property
      <<"KeywordProgram", "foo", "KeywordProperty", "x", "KeywordVar", "y",
        "KeywordColon", "INT", "KeywordSemicolon", "KeywordEndVar", "KeywordGet",
        "KeywordEndGet", "KeywordEndProperty", "KeywordEndProgram">>,
      \* TYPE x : INT (foo, bar); y : INT (foo); x : INT (1..2); y : INT; END_TYPE
      <<"KeywordType", "x", "KeywordColon", "INT", "KeywordParensOpen", "foo",
        "KeywordComma", "bar", "KeywordParensClose", "KeywordSemicolon",
        "y", "KeywordColon", "INT", "KeywordParensOpen", "foo", "KeywordParensClose",
        "KeywordSemicolon",
        "x", "KeywordColon", "INT", "KeywordParensOpen", "1", "KeywordDotDot", "2",
        "KeywordParensClose", "KeywordSemicolon",
        "y", "KeywordColon", "INT", "KeywordSemicolon", "KeywordEndType">>,
      \* CLASS foo EXTENDS bar VAR x : (foo, bar); END_VAR
      \*   METHOD y VAR x : INT (1..2); END_VAR END_METHOD
      \*   PROPERTY x : INT GET VAR y : (foo); END_VAR END_GET END_PROPERTY END_CLASS
      <<"KeywordClass", "foo", "KeywordExtends", "bar",
        "KeywordVar", "x", "KeywordColon", "KeywordParensOpen", "foo", "KeywordComma",
        "bar", "KeywordParensClose", "KeywordSemicolon", "KeywordEndVar",
        "KeywordMethod", "y", "KeywordVar", "x", "KeywordColon", "INT",
        "KeywordParensOpen", "1", "KeywordDotDot", "2", "KeywordParensClose",
        "KeywordSemicolon", "KeywordEndVar", "KeywordEndMethod",
        "KeywordProperty", "x", "KeywordColon", "INT", "KeywordGet", "KeywordVar", "y",
        "KeywordColon", "KeywordParensOpen", "foo", "KeywordParensClose",
        "KeywordSemicolon", "KeywordEndVar", "KeywordEndGet", "KeywordEndProperty",
        "KeywordEndClass">>,
      \* VAR_GLOBAL x : INT (1..2); y : INT (foo); END_VAR
      <<"KeywordVarGlobal", "x", "KeywordColon", "INT", "KeywordParensOpen", "1",
        "KeywordDotDot", "2", "KeywordParensClose", "KeywordSemicolon", "y",
        "KeywordColon", "INT", "KeywordParensOpen", "foo", "KeywordParensClose",
        "KeywordSemicolon", "KeywordEndVar">> }

\* variable blocks and VAR_CONFIG blocks: pointers and references, constant
\* blocks, lines of several names, aliases, hardware addresses
VariableSegments ==
    SharedSegments \cup
    { \* VAR_GLOBAL x : POINTER TO INT; y : REF_TO INT; foo : REFERENCE TO INT;
      \*   bar : POINTER TO REF_TO INT; END_VAR
      <<"KeywordVarGlobal", "x", "KeywordColon", "KeywordPointer", "KeywordTo", "INT",
        "KeywordSemicolon", "y", "KeywordColon", "KeywordRef", "INT",
        "KeywordSemicolon", "foo", "KeywordColon", "KeywordReferenceTo", "INT",
        "KeywordSemicolon", "bar", "KeywordColon", "KeywordPointer", "KeywordTo",
        "KeywordRef", "INT", "KeywordSemicolon", "KeywordEndVar">>,
      \* TYPE x : POINTER TO INT; y : REF_TO INT; END_TYPE
      <<"KeywordType", "x", "KeywordColon", "KeywordPointer", "KeywordTo", "INT",
        "KeywordSemicolon", "y", "KeywordColon", "KeywordRef", "INT",
        "KeywordSemicolon", "KeywordEndType">>,
      \* VAR_GLOBAL CONSTANT x : INT; y : INT := 1; END_VAR
      <<"KeywordVarGlobal", "KeywordConstant", "x", "KeywordColon", "INT",
        "KeywordSemicolon", "y", "KeywordColon", "INT", "KeywordAssignment", "1",
        "KeywordSemicolon", "KeywordEndVar">>,
      \* PROGRAM foo VAR_EXTERNAL CONSTANT x : INT; END_VAR VAR x : INT; y : INT := 1; END_VAR
      \* END_PROGRAM
      <<"KeywordProgram", "foo", "KeywordVarExternal", "KeywordConstant", "x",
        "KeywordColon", "INT", "KeywordSemicolon", "KeywordEndVar", "KeywordVar", "x",
        "KeywordColon", "INT", "KeywordSemicolon", "y", "KeywordColon", "INT",
        "KeywordAssignment", "1", "KeywordSemicolon", "KeywordEndVar",
        "KeywordEndProgram">>,
      \* VAR_GLOBAL x, y, foo : INT := 1; x, y AT %IX1 : INT; END_VAR
      <<"KeywordVarGlobal", "x", "KeywordComma", "y", "KeywordComma", "foo",
        "KeywordColon", "INT", "KeywordAssignment", "1", "KeywordSemicolon", "x",
        "KeywordComma", "y", "KeywordAt", "%IX", "1", "KeywordColon", "INT",
        "KeywordSemicolon", "KeywordEndVar">>,
      \* VAR_GLOBAL x, y : ; bar : INT; END_VAR: a line without type
      <<"KeywordVarGlobal", "x", "KeywordComma", "y", "KeywordColon",
        "KeywordSemicolon", "bar", "KeywordColon", "INT", "KeywordSemicolon",
        "KeywordEndVar">>,
      \* VAR_GLOBAL x, y AT foo : INT; bar AT foo.x : ; END_VAR: aliases, the second
      \* without type
      <<"KeywordVarGlobal", "x", "KeywordComma", "y", "KeywordAt", "foo",
        "KeywordColon", "INT", "KeywordSemicolon", "bar", "KeywordAt", "foo",
        "KeywordDot", "x", "KeywordColon", "KeywordSemicolon", "KeywordEndVar">>,
      \* VAR_CONFIG x AT %IX1 : INT; foo.y AT %IX2 : INT; END_VAR
      <<"KeywordVarConfig", "x", "KeywordAt", "%IX", "1", "KeywordColon", "INT",
        "KeywordSemicolon", "foo", "KeywordDot", "y", "KeywordAt", "%IX", "2",
        "KeywordColon", "INT", "KeywordSemicolon", "KeywordEndVar">>,
      \* VAR_CONFIG x AT : INT; x AT %IX : INT; x AT %IX1; y AT %IX1 : INT; END_VAR:
      \* no address, no integer in the address, no type, and a well-formed entry
      <<"KeywordVarConfig", "x", "KeywordAt", "KeywordColon", "INT",
        "KeywordSemicolon", "x", "KeywordAt", "%IX", "KeywordColon", "INT",
        "KeywordSemicolon", "x", "KeywordAt", "%IX", "1", "KeywordSemicolon", "y",
        "KeywordAt", "%IX", "1", "KeywordColon", "INT", "KeywordSemicolon",
        "KeywordEndVar">>,
      \* VAR_CONFIG x %IX1 : INT; END_VAR: no AT
      <<"KeywordVarConfig", "x", "%IX", "1", "KeywordColon", "INT", "KeywordSemicolon",
        "KeywordEndVar">>,
      \* VAR_CONFIG x AT %IX1 : INT := 1; END_VAR: an initializer
      <<"KeywordVarConfig", "x", "KeywordAt", "%IX", "1", "KeywordColon", "INT",
        "KeywordAssignment", "1", "KeywordSemicolon", "KeywordEndVar">> }

\* POUs with constant pragmas and methods, an interface with bodies
MemberSegments ==
    SharedSegments \cup
    { \* FUNCTION_BLOCK foo {constant} METHOD x END_METHOD END_FUNCTION_BLOCK
      <<"KeywordFunctionBlock", "foo", "PropertyConstant", "KeywordMethod", "x",
        "KeywordEndMethod", "KeywordEndFunctionBlock">>,
      \* PROGRAM foo {constant} END_PROGRAM: a pragma without method
      <<"KeywordProgram", "foo", "PropertyConstant", "KeywordEndProgram">>,
      \* CLASS foo {constant} PROPERTY x : INT GET END_GET END_PROPERTY END_CLASS
      <<"KeywordClass", "foo", "PropertyConstant", "KeywordProperty", "x",
        "KeywordColon", "INT", "KeywordGet", "KeywordEndGet", "KeywordEndProperty",
        "KeywordEndClass">>,
      \* FUNCTION_BLOCK foo METHOD x END_METHOD METHOD y END_METHOD END_FUNCTION_BLOCK
      <<"KeywordFunctionBlock", "foo", "KeywordMethod", "x", "KeywordEndMethod",
        "KeywordMethod", "y", "KeywordEndMethod", "KeywordEndFunctionBlock">>,
      \* FUNCTION_BLOCK foo METHOD END_METHOD METHOD y END_METHOD END_FUNCTION_BLOCK:
      \* the first method has no name
      <<"KeywordFunctionBlock", "foo", "KeywordMethod", "KeywordEndMethod",
        "KeywordMethod", "y", "KeywordEndMethod", "KeywordEndFunctionBlock">>,
      \* INTERFACE foo METHOD x y; END_METHOD METHOD y END_METHOD
      \*   PROPERTY x : INT GET y; END_GET END_PROPERTY END_INTERFACE
      <<"KeywordInterface", "foo", "KeywordMethod", "x", "y", "KeywordSemicolon",
        "KeywordEndMethod", "KeywordMethod", "y", "KeywordEndMethod",
        "KeywordProperty", "x", "KeywordColon", "INT", "KeywordGet", "y",
        "KeywordSemicolon", "KeywordEndGet", "KeywordEndProperty",
        "KeywordEndInterface">> }

Streams ==
    UNION {{Flatten(c) : c \in [1..n -> Segments]} : n \in 0..MaxItems}

Init ==
    /\ tokens \in Streams
    /\ lnk \in Linkages
    /\ lexer = NewSession
    /\ unit = NewUnit
    /\ linkage = lnk
    /\ constant = FALSE
    /\ pc = "loop"
    /\ parsed = None
    /\ file_result = None
    /\ hist = [items |-> <<>>, external_pragma |-> FALSE, constant_pragma |-> FALSE,
               severity |-> "None"]

\* the streams of declarations with members
DeclarationStreams ==
    UNION {{Flatten(c) : c \in [1..n -> DeclarationSegments]} : n \in 0..MaxItems}

\* parse() called on a file of the project or on an external one
InitDeclarations ==
    /\ tokens \in DeclarationStreams
    /\ lnk \in {"Internal", "External"}
    /\ lexer = NewSession
    /\ unit = NewUnit
    /\ linkage = lnk
    /\ constant = FALSE
    /\ pc = "loop"
    /\ parsed = None
    /\ file_result = None
    /\ hist = [items |-> <<>>, external_pragma |-> FALSE, constant_pragma |-> FALSE,
               severity |-> "None"]

\* the streams of variable and VAR_CONFIG blocks
VariableStreams ==
    UNION {{Flatten(c) : c \in [1..n -> VariableSegments]} : n \in 0..MaxItems}

InitVariables ==
    /\ tokens \in VariableStreams
    /\ lnk = "Internal"
    /\ lexer = NewSession
    /\ unit = NewUnit
    /\ linkage = lnk
    /\ constant = FALSE
    /\ pc = "loop"
    /\ parsed = None
    /\ file_result = None
    /\ hist = [items |-> <<>>, external_pragma |-> FALSE, constant_pragma |-> FALSE,
               severity |-> "None"]

\* the streams of POUs with pragmas and methods
MemberStreams ==
    UNION {{Flatten(c) : c \in [1..n -> MemberSegments]} : n \in 0..MaxItems}

InitMembers ==
    /\ tokens \in MemberStreams
    /\ lnk \in Linkages
    /\ lexer = NewSession
    /\ unit = NewUnit
    /\ linkage = lnk
    /\ constant = FALSE
    /\ pc = "loop"
    /\ parsed = None
    /\ file_result = None
    /\ hist = [items |-> <<>>, external_pragma |-> FALSE, constant_pragma |-> FALSE,
               severity |-> "None"]

Next ==
    \/ DispatchExternal
    \/ DispatchConstant
    \/ DispatchInterface
    \/ DispatchVarGlobal
    \/ DispatchVarConfig
    \/ DispatchPou
    \/ DispatchAction
    \/ DispatchActions
    \/ DispatchType
    \/ DispatchReturn
    \/ DispatchUnexpected
    \/ ParseFileReturn

Spec == Init /\ [][Next]_vars

SpecDeclarations == InitDeclarations /\ [][Next]_vars

SpecVariables == InitVariables /\ [][Next]_vars

SpecMembers == InitMembers /\ [][Next]_vars

-----------------------------------------------------------------------------
(* Properties *)

Diagnostics == lexer.diagnostics
HasDiagnostic(d) == \E i \in 1..Len(Diagnostics) : Diagnostics[i] = d
PouTokens == {"KeywordProgram", "KeywordClass", "KeywordFunction", "KeywordFunctionBlock"}

RegionBalance ==
    /\ lexer.opens = lexer.closes
    /\ Len(lexer.closing_keywords) = 0

\* C2 witness: a region whose inner parser returned early with nothing (an
\* ACTION without its container, given up at the missing dot) has been left.
RegionBalanceWitness ==
    /\ pc = "loop"
    /\ HasDiagnostic(Diagnostic("unexpected_token_found", "KeywordDot"))
    /\ lexer.opens > 0
    /\ lexer.opens = lexer.closes

\* C3: every iteration of the dispatcher loop that does not return moves the
\* cursor forward, and the unrecognized-token branch records exactly one
\* unexpected-token diagnostic and advances by exactly one token.
DispatchProgress ==
    [][ /\ (pc = "loop" /\ pc' = "loop") => lexer'.pos > lexer.pos
        /\ (pc = "loop" /\ Tok(lexer) \notin StartTokens) =>
              /\ lexer'.pos = lexer.pos + 1
              /\ lexer'.diagnostics =
                    Append(lexer.diagnostics,
                           Diagnostic("unexpected_token_found", "StartKeyword")) ]_vars

\* C3 witness: an unrecognized token has been dispatched after another item.
DispatchProgressWitness ==
    /\ pc = "loop"
    /\ Len(hist.items) >= 2
    /\ hist.items[Len(hist.items)].token \notin StartTokens

ImplementationsNamed(n) ==
    {j \in 1..Len(unit.implementations) : unit.implementations[j].name = n}
PousNamed(n) == {i \in 1..Len(unit.pous) : unit.pous[i].name = n}

\* C4 as claimed: after parse() returns every Pou of the unit has exactly one
\* Implementation of its name.
ExactlyOneImplementationPerPou ==
    pc = "returned" =>
        \A i \in 1..Len(unit.pous) :
            Cardinality(ImplementationsNamed(unit.pous[i].name)) = 1

\* C4 as amended: every Pou of the unit has an Implementation of its name and
\* kind, and for every name the Implementations of that name that are not
\* actions are as many as the Pous of that name.
ImplementationPerPou ==
    \A i \in 1..Len(unit.pous) :
        /\ \E j \in ImplementationsNamed(unit.pous[i].name) :
              unit.implementations[j].pou_type = unit.pous[i].kind
        /\ Cardinality({j \in ImplementationsNamed(unit.pous[i].name) :
                            unit.implementations[j].pou_type.type # "Action"})
            = Cardinality(PousNamed(unit.pous[i].name))

\* C4 witness: two POUs of one name have been parsed, one of them with a method.
ImplementationPerPouWitness ==
    /\ pc = "returned"
    /\ \E i, j \in 1..Len(unit.pous) : i # j /\ unit.pous[i].name = unit.pous[j].name
    /\ \E i \in 1..Len(unit.pous) : unit.pous[i].kind.type = "Method"

\* C5: recovery never skips a boundary: whenever parse_any_in_region returned,
\* the cursor was at end-of-stream or at, or just past, the first token after
\* the inner parser's stop that closes an open region.
RecoveryStopsAtBoundary == ~lexer.off_boundary

\* C5 witness: recovery has skipped tokens inside a region and stopped at a
\* token of an enclosing region (reported as a missing closing token).
RecoveryStopsAtBoundaryWitness ==
    /\ pc = "loop"
    /\ HasDiagnostic(Diagnostic("unexpected_token_found", "recovery"))
    /\ HasDiagnostic(Diagnostic("missing_token", "closing"))

\* C6 as claimed: every declaration and body parser works inside an open
\* region that holds the construct's own end keyword.
EveryConstructGuarded == lexer.unguarded = {}

\* C7 as claimed: the constant flag is set at a dispatch decision only when a
\* constant pragma was read since the last item was dispatched.
ConstantOnlyForNextItem ==
    (pc = "loop" /\ constant) => hist.constant_pragma

\* C8: at every dispatch decision the linkage is External when an external
\* pragma was read since the last item was dispatched (a constant pragma in
\* between changes nothing) and the caller's linkage otherwise; the POUs and
\* global variable blocks dispatched carry that linkage.
ExpectedLinkage(external) == IF external THEN "External" ELSE lnk

ExternalOnlyForNextItem ==
    /\ pc = "loop" => linkage = ExpectedLinkage(hist.external_pragma)
    /\ \A k \in 1..Len(hist.items) :
          /\ hist.items[k].token \in PouTokens =>
                unit.pous[hist.items[k].pous + 1].linkage
                    = ExpectedLinkage(hist.items[k].external)
          /\ hist.items[k].token = "KeywordVarGlobal" =>
                unit.global_vars[hist.items[k].global_vars + 1].linkage
                    = ExpectedLinkage(hist.items[k].external)

\* C8 witness: a POU was dispatched after an external and a constant pragma
\* under another caller linkage and the linkage is the caller's again.
ExternalOnlyForNextItemWitness ==
    /\ pc = "loop"
    /\ lnk # "External"
    /\ linkage = lnk
    /\ \E k \in 1..Len(hist.items) :
          /\ hist.items[k].token \in PouTokens
          /\ hist.items[k].external /\ hist.items[k].constant
          /\ unit.pous[hist.items[k].pous + 1].linkage = "External"

\* C9: parse() never aborts: it returns the unit together with the whole
\* diagnostic log; parse_file fails, carrying every recorded diagnostic,
\* exactly when the handled severity is Error and returns the unit otherwise.
ParseResult ==
    /\ ~lexer.panicked
    /\ pc \in {"returned", "done"} =>
          parsed = Some([unit |-> unit, errors |-> lexer.diagnostics])
    /\ pc = "done" =>
          /\ hist.severity = "Error" =>
                file_result = Some([ok |-> FALSE, sub_diagnostics |-> lexer.diagnostics])
          /\ hist.severity # "Error" =>
                file_result = Some([ok |-> TRUE, unit |-> unit])

\* C9 witness: parse_file has returned the unit although diagnostics of
\* warning severity were recorded.
ParseResultWitness ==
    /\ pc = "done"
    /\ hist.severity = "Warning"
    /\ Len(lexer.diagnostics) > 1
    /\ file_result[1].ok

\* streams with one failure: a property without a name, a return type
\* missing after its colon
SingleFailureStreams ==
    { <<"KeywordProgram", "foo", "KeywordProperty", "KeywordColon", "INT",
        "KeywordEndProperty", "KeywordEndProgram">>,
      <<"KeywordFunction", "foo", "KeywordColon", "KeywordEndFunction">> }

\* C10 as claimed: a single missing name or missing datatype yields exactly
\* one diagnostic.
OneDiagnosticPerFailure ==
    (pc = "returned" /\ tokens \in SingleFailureStreams) => Len(lexer.diagnostics) = 1

-----------------------------------------------------------------------------
(* What one step of the dispatcher loop adds, and where tokens stand *)

KindAt(i) == IF i \in 1..Len(tokens) THEN Kind(tokens[i]) ELSE "End"

\* the first index at or after p whose token is in S, Len(tokens) + 1 when
\* there is none
FirstIndexOf(p, S) ==
    CHOOSE i \in p..(Len(tokens) + 1) :
        /\ i = Len(tokens) + 1 \/ KindAt(i) \in S
        /\ \A j \in p..(i - 1) : KindAt(j) \notin S

NewDiagnostics ==
    SubSeq(lexer'.diagnostics, Len(lexer.diagnostics) + 1, Len(lexer'.diagnostics))
NewPous == SubSeq(unit'.pous, Len(unit.pous) + 1, Len(unit'.pous))
NewImplementations ==
    SubSeq(unit'.implementations, Len(unit.implementations) + 1,
           Len(unit'.implementations))

Count(seq, d) == Cardinality({i \in 1..Len(seq) : seq[i] = d})

\* where the name of the POU dispatched at the cursor stands
PouNameIndex ==
    IF PouParams(Tok(lexer)).kind \in {"Class", "FunctionBlock"}
       /\ KindAt(lexer.pos + 1) \in {"KeywordFinal", "KeywordAbstract"}
    THEN lexer.pos + 2
    ELSE lexer.pos + 1

\* C11: a POU whose name is missing is kept: the step adds exactly one Pou of
\* the POU's kind, first in the list and with the empty name, exactly one
\* Implementation of that kind, also with the empty name, and one diagnostic
\* for the missing identifier; the loop goes on right after the first token
\* that closes the POU's region (at end-of-stream when there is none).
MissingNamePouKept ==
    [][ (pc = "loop" /\ Tok(lexer) \in PouTokens /\ KindAt(PouNameIndex) # "Identifier") =>
          /\ pc' = "loop"
          /\ Len(NewPous) >= 1
          /\ NewPous[1].name = "" /\ NewPous[1].kind = PouType(PouParams(Tok(lexer)).kind)
          /\ \A i \in 2..Len(NewPous) : NewPous[i].kind.type = "Method"
          /\ \E j \in 1..Len(NewImplementations) :
                /\ NewImplementations[j].name = ""
                /\ NewImplementations[j].pou_type = NewPous[1].kind
                /\ \A k \in 1..Len(NewImplementations) :
                      NewImplementations[k].pou_type = NewPous[1].kind => k = j
          /\ Count(NewDiagnostics, Diagnostic("unexpected_token_found", "Identifier")) >= 1
          /\ lexer'.pos =
                IF FirstIndexOf(lexer.pos + 1,
                                PouClosingTokens(PouParams(Tok(lexer)).end)) <= Len(tokens)
                THEN FirstIndexOf(lexer.pos + 1,
                                  PouClosingTokens(PouParams(Tok(lexer)).end)) + 1
                ELSE Len(tokens) + 1 ]_vars

\* C11 witness: a POU without a name has been dispatched, its Pou with the
\* empty name is in the unit, and the loop stands at the item that follows.
MissingNamePouKeptWitness ==
    /\ pc = "loop"
    /\ Len(hist.items) = 1
    /\ hist.items[1].token \in PouTokens
    /\ KindAt(hist.items[1].pos + 1) # "Identifier"
    /\ Len(unit.pous) = 1 /\ unit.pous[1].name = ""
    /\ Len(unit.implementations) = 1 /\ unit.implementations[1].name = ""
    /\ lexer.pos <= Len(tokens)

\* the scopes recorded by the type definitions of a declaration, nested ones
\* included
RECURSIVE DeclaredScopes(_)
DeclaredScopes(decl) ==
    IF decl.kind # "Definition" THEN {}
    ELSE {decl.scope} \cup
         (CASE decl.data_type.type \in {"PointerType", "ArrayType"} ->
                    DeclaredScopes(decl.data_type.referenced_type)
            [] decl.data_type.type = "StructType" ->
                    UNION {DeclaredScopes(decl.data_type.variables[i].data_type_declaration) :
                                i \in 1..Len(decl.data_type.variables)}
            [] decl.data_type.type = "VarArgs" ->
                    IF IsSome(decl.data_type.referenced_type)
                    THEN DeclaredScopes(decl.data_type.referenced_type[1])
                    ELSE {}
            [] OTHER -> {})

BlockScopes(blocks) ==
    UNION {UNION {DeclaredScopes(blocks[i].variables[j].data_type_declaration) :
                    j \in 1..Len(blocks[i].variables)} : i \in 1..Len(blocks)}

PropertyScopes(property) ==
    DeclaredScopes(property.datatype)
        \cup UNION {BlockScopes(property.implementations[k].variable_blocks) :
                        k \in 1..Len(property.implementations)}

PouScopes(pou) ==
    BlockScopes(pou.variable_blocks)
        \cup (IF IsSome(pou.return_type) THEN DeclaredScopes(pou.return_type[1]) ELSE {})
        \cup UNION {PropertyScopes(pou.properties[k]) : k \in 1..Len(pou.properties)}

\* the POU a Pou was declared in: the parent of a method, the Pou itself otherwise
OwnerOf(pou) == IF pou.kind.type = "Method" THEN pou.kind.parent ELSE pou.name

\* C12: the scope slot is an acquire/release pair: with_scope is never entered
\* while the slot is set, the slot is empty at every dispatch decision and
\* after parse() returned, the type definitions of top-level TYPE and
\* VAR_GLOBAL blocks record no scope, and every type definition inside a POU,
\* its methods and its properties records the POU's name.
ScopeDiscipline ==
    /\ ~lexer.nested_scope
    /\ lexer.scope = None
    /\ \A k \in 1..Len(unit.user_types) : unit.user_types[k].scope = None
    /\ BlockScopes(unit.global_vars) \subseteq {None}
    /\ \A i \in 1..Len(unit.pous) : PouScopes(unit.pous[i]) \subseteq {Some(OwnerOf(unit.pous[i]))}

\* C12 witness: a class with a type definition in its own variable block, in
\* a method's and in a property accessor's, then a VAR_GLOBAL block with type
\* definitions, have been parsed.
ScopeDisciplineWitness ==
    /\ pc = "returned"
    /\ \E i \in 1..Len(unit.pous) :
          /\ unit.pous[i].kind.type = "Class"
          /\ BlockScopes(unit.pous[i].variable_blocks) # {}
          /\ \E k \in 1..Len(unit.pous[i].properties) :
                PropertyScopes(unit.pous[i].properties[k]) # {}
    /\ \E i \in 1..Len(unit.pous) :
          unit.pous[i].kind.type = "Method" /\ PouScopes(unit.pous[i]) # {}
    /\ BlockScopes(unit.global_vars) # {}

\* FUNCTION foo : INT VAR x : INT; END_VAR x; END_FUNCTION
WellFormedFunction ==
    <<"KeywordFunction", "foo", "KeywordColon", "INT", "KeywordVar", "x",
      "KeywordColon", "INT", "KeywordSemicolon", "KeywordEndVar", "x",
      "KeywordSemicolon", "KeywordEndFunction">>

\* well-formed declarations: PROGRAM foo END_PROGRAM, the function above,
\* FUNCTION_BLOCK bar METHOD x END_METHOD END_FUNCTION_BLOCK,
\* TYPE x : (foo, bar); END_TYPE and VAR_GLOBAL x : INT; END_VAR
WellFormedDeclarations ==
    { <<"KeywordProgram", "foo", "KeywordEndProgram">>,
      WellFormedFunction,
      <<"KeywordFunctionBlock", "bar", "KeywordMethod", "x", "KeywordEndMethod",
        "KeywordEndFunctionBlock">>,
      <<"KeywordType", "x", "KeywordColon", "KeywordParensOpen", "foo", "KeywordComma",
        "bar", "KeywordParensClose", "KeywordSemicolon", "KeywordEndType">>,
      <<"KeywordVarGlobal", "x", "KeywordColon", "INT", "KeywordSemicolon",
        "KeywordEndVar">> }

WellFormedStreams ==
    UNION {{Flatten(c) : c \in [1..n -> WellFormedDeclarations]} : n \in 1..MaxItems}

\* C13: on well-formed declarations no diagnostic is recorded and every token
\* is consumed by the parsers (recovery discards nothing); the well-formed
\* function yields exactly one Pou of kind Function, one Implementation of
\* its name holding the body's statement, and one Local variable block with
\* the variable x of type reference INT.
WellFormedParsesClean ==
    /\ (pc = "returned" /\ tokens \in WellFormedStreams) =>
          /\ lexer.diagnostics = <<>>
          /\ lexer.pos = Len(tokens) + 1
    /\ (pc = "returned" /\ tokens = WellFormedFunction) =>
          /\ Len(unit.pous) = 1
          /\ unit.pous[1].name = "foo"
          /\ unit.pous[1].kind = PouType("Function")
          /\ unit.pous[1].return_type = Some(Reference("INT"))
          /\ Len(unit.pous[1].variable_blocks) = 1
          /\ unit.pous[1].variable_blocks[1].kind = [type |-> "Local"]
          /\ unit.pous[1].variable_blocks[1].variables
                = <<Variable("x", Reference("INT"), None, None)>>
          /\ Len(unit.implementations) = 1
          /\ unit.implementations[1].name = "foo"
          /\ unit.implementations[1].pou_type = PouType("Function")
          /\ Len(unit.implementations[1].statements) = 1

\* C13 witness: parse() has returned from the well-formed function.
WellFormedParsesCleanWitness ==
    /\ pc = "returned"
    /\ tokens = WellFormedFunction
    /\ Len(unit.pous) = 1

\* ACTIONS ACTION x END_ACTION END_ACTIONS PROGRAM foo END_PROGRAM
ActionsThenProgram ==
    <<"KeywordActions", "KeywordAction", "x", "KeywordEndAction", "KeywordEndActions",
      "KeywordProgram", "foo", "KeywordEndProgram">>

\* C14: the dispatcher returns exactly when its leading token is end-of-stream
\* or END_ACTIONS; an ACTIONS block is left, with the loop going on, right
\* after the first END_ACTIONS that follows (at end-of-stream when there is
\* none), so that a POU after a complete block is parsed into the unit.
ReturnsOnlyAtEnd ==
    /\ [][ /\ (pc = "loop" /\ pc' = "returned") => Tok(lexer) \in {"KeywordEndActions", "End"}
           /\ (pc = "loop" /\ Tok(lexer) \in {"KeywordEndActions", "End"}) => pc' = "returned"
           /\ (pc = "loop" /\ Tok(lexer) = "KeywordActions") =>
                 /\ pc' = "loop"
                 /\ lexer'.pos =
                       IF FirstIndexOf(lexer.pos + 1, {"KeywordEndActions"}) <= Len(tokens)
                       THEN FirstIndexOf(lexer.pos + 1, {"KeywordEndActions"}) + 1
                       ELSE Len(tokens) + 1 ]_vars
    /\ []((pc = "returned" /\ tokens = ActionsThenProgram) =>
             /\ Len(unit.pous) = 1 /\ unit.pous[1].name = "foo"
             /\ Len(unit.implementations) = 2
             /\ lexer.pos = Len(tokens) + 1)

\* C14 witness: parse() has returned at end-of-stream after an ACTIONS block
\* closed by END_ACTIONS and the POU that follows it.
ReturnsOnlyAtEndWitness ==
    /\ pc = "returned"
    /\ Len(hist.items) = 2
    /\ hist.items[1].token = "KeywordActions"
    /\ KindAt(hist.items[2].pos - 1) = "KeywordEndActions"
    /\ hist.items[2].token \in PouTokens
    /\ Len(unit.pous) >= 1
    /\ Tok(lexer) = "End"

SliceAt(i) == IF i \in 1..Len(tokens) THEN tokens[i] ELSE ""

ContainerKinds == {"Program", "Function", "FunctionBlock", "Class"}

\* container is the name of a Pou of a container kind that no Pou of such a
\* kind follows, or the placeholder when the unit has no such Pou
IsDefaultContainer(container) ==
    IF \E i \in 1..Len(unit.pous) : unit.pous[i].kind.type \in ContainerKinds
    THEN \E i \in 1..Len(unit.pous) :
            /\ unit.pous[i].kind.type \in ContainerKinds
            /\ unit.pous[i].name = container
            /\ \A j \in (i + 1)..Len(unit.pous) : unit.pous[j].kind.type \notin ContainerKinds
    ELSE container = "__unknown__"

\* C15: an ACTIONS block without a container name takes the name of the most
\* recently declared program, function, function block or class (never a
\* method), or "__unknown__" when there is none; every Implementation of the
\* block is an action with that type name and with the call name
\* <container>.<action>, <action> being the token after an ACTION keyword of
\* the block.
DefaultActionContainer ==
    [][ (pc = "loop" /\ Tok(lexer) = "KeywordActions"
            /\ KindAt(lexer.pos + 1) # "Identifier") =>
          \A k \in 1..Len(NewImplementations) :
              /\ NewImplementations[k].pou_type = PouType("Action")
              /\ IsDefaultContainer(NewImplementations[k].type_name)
              /\ \E i \in (lexer.pos + 1)..(lexer'.pos - 1) :
                    /\ KindAt(i) = "KeywordAction"
                    /\ NewImplementations[k].name
                          = qualified_name(NewImplementations[k].type_name, SliceAt(i + 1)) ]_vars

\* C15 witness: after a function block with a method, an ACTIONS block without
\* a container name has added two actions, named after the function block.
DefaultActionContainerWitness ==
    /\ pc = "loop"
    /\ Len(hist.items) = 2
    /\ hist.items[2].token = "KeywordActions"
    /\ KindAt(hist.items[2].pos + 1) = "KeywordAction"
    /\ Len(unit.pous) = 2
    /\ unit.pous[2].kind.type = "Method"
    /\ Len(unit.implementations) = 4
    /\ unit.implementations[3].name = qualified_name(unit.pous[1].name, "x")
    /\ unit.implementations[4].name = qualified_name(unit.pous[1].name, "y")
    /\ unit.implementations[4].type_name = unit.pous[1].name

\* where the EXTENDS clauses of the POU dispatched at the cursor start
ExtendsIndex ==
    IF KindAt(PouNameIndex) = "Identifier" THEN PouNameIndex + 1 ELSE PouNameIndex

\* the number of clauses `EXTENDS <name>` in a row from index p on
RECURSIVE ExtendsClauses(_)
ExtendsClauses(p) ==
    IF KindAt(p) = "KeywordExtends" /\ KindAt(p + 1) = "Identifier"
    THEN 1 + ExtendsClauses(p + 2)
    ELSE 0

\* FUNCTION_BLOCK foo EXTENDS bar EXTENDS x EXTENDS y END_FUNCTION_BLOCK
ThreeExtends ==
    <<"KeywordFunctionBlock", "foo", "KeywordExtends", "bar", "KeywordExtends", "x",
      "KeywordExtends", "y", "KeywordEndFunctionBlock">>

PouEndIndex == FirstIndexOf(lexer.pos + 1, PouClosingTokens(PouParams(Tok(lexer)).end))

\* the same for the action dispatched at the cursor
ActionEndIndex == FirstIndexOf(lexer.pos + 1, ActionClosingTokens)

\* a POU ended by one of its closing tokens: the token is consumed, the Pou
\* is added, and the unexpected-token diagnostic naming the expected end
\* keyword is recorded exactly when the token is another end keyword
PouEndKeywordChecked ==
    (pc = "loop" /\ Tok(lexer) \in PouTokens /\ PouEndIndex <= Len(tokens)) =>
        /\ lexer'.pos = PouEndIndex + 1
        /\ Len(NewPous) >= 1
        /\ Count(NewDiagnostics,
                 Diagnostic("unexpected_token_found", PouParams(Tok(lexer)).end))
              = IF KindAt(PouEndIndex) # PouParams(Tok(lexer)).end THEN 1 ELSE 0

\* the same for a top-level action `ACTION <container>.<name>`
ActionEndKeywordChecked ==
    (pc = "loop" /\ Tok(lexer) = "KeywordAction"
        /\ KindAt(lexer.pos + 1) = "Identifier" /\ KindAt(lexer.pos + 2) = "KeywordDot"
        /\ KindAt(lexer.pos + 3) = "Identifier" /\ ActionEndIndex <= Len(tokens)) =>
        /\ lexer'.pos = ActionEndIndex + 1
        /\ Len(NewImplementations) = 1
        /\ Count(NewDiagnostics, Diagnostic("unexpected_token_found", "KeywordEndAction"))
              = IF KindAt(ActionEndIndex) # "KeywordEndAction" THEN 1 ELSE 0

\* C17 as claimed: a POU or action ended by a closing token that is not the
\* end keyword of its kind is returned with that token consumed and one
\* unexpected-token diagnostic naming the expected end keyword; no such
\* diagnostic is recorded when the expected end keyword is used.
EndKeywordMismatchReported ==
    [][PouEndKeywordChecked /\ ActionEndKeywordChecked]_vars

\* the calls of fn in the log
CallsOf(fn) == {i \in 1..Len(lexer.calls) : lexer.calls[i].fn = fn}

\* the diagnostics recorded during a call of the log
DiagnosticsOf(call) == SubSeq(lexer.diagnostics, call.diags_from + 1, call.diags_to)

\* the accessors with a body among the properties
AccessorsWithBody(properties) ==
    {<<k, a>> \in (1..Len(properties)) \X (1..4) :
        /\ a <= Len(properties[k].implementations)
        /\ Len(properties[k].implementations[a].body) > 0}

\* INTERFACE foo METHOD x y; END_METHOD
\*   PROPERTY x : INT GET y; END_GET SET END_SET END_PROPERTY END_INTERFACE
InterfaceWithBodies ==
    <<"KeywordInterface", "foo", "KeywordMethod", "x", "y", "KeywordSemicolon",
      "KeywordEndMethod", "KeywordProperty", "x", "KeywordColon", "INT", "KeywordGet",
      "y", "KeywordSemicolon", "KeywordEndGet", "KeywordSet", "KeywordEndSet",
      "KeywordEndProperty", "KeywordEndInterface">>

\* INTERFACE foo METHOD x END_METHOD END_INTERFACE
InterfaceWithoutBodies ==
    <<"KeywordInterface", "foo", "KeywordMethod", "x", "KeywordEndMethod",
      "KeywordEndInterface">>

\* C18: every call of parse_interface records as many method E113 as it
\* returns methods with a body and as many property E113 as its properties
\* have accessors with a body; every method parsed is in the interface and
\* its Implementation, body included, is returned with it.  The interface
\* with a method body, a GET body and an empty SET yields one method, one
\* property with both accessors and exactly these two E113; the interface
\* whose method is empty yields the method and no diagnostic.
DefaultImplementationsReported ==
    /\ \A c \in CallsOf("parse_interface") :
          /\ Count(DiagnosticsOf(lexer.calls[c]), Diagnostic("E113", "method"))
                = Cardinality({j \in 1..Len(lexer.calls[c].result.implementations) :
                        Len(lexer.calls[c].result.implementations[j].statements) > 0})
          /\ Count(DiagnosticsOf(lexer.calls[c]), Diagnostic("E113", "property"))
                = Cardinality(AccessorsWithBody(lexer.calls[c].result.interface.properties))
          /\ Len(lexer.calls[c].result.interface.methods)
                = Len(lexer.calls[c].result.implementations)
          /\ \A j \in 1..Len(lexer.calls[c].result.implementations) :
                lexer.calls[c].result.interface.methods[j].name
                    = lexer.calls[c].result.implementations[j].name
    /\ (pc = "returned" /\ tokens = InterfaceWithBodies) =>
          /\ lexer.diagnostics = <<Diagnostic("E113", "method"), Diagnostic("E113", "property")>>
          /\ Len(unit.interfaces) = 1
          /\ Len(unit.interfaces[1].methods) = 1
          /\ unit.interfaces[1].methods[1].name = "foo.x"
          /\ Len(lexer.calls[Len(lexer.calls)].result.implementations[1].statements) = 1
          /\ Len(unit.interfaces[1].properties) = 1
          /\ Len(unit.interfaces[1].properties[1].implementations) = 2
          /\ Len(unit.interfaces[1].properties[1].implementations[1].body) = 1
          /\ Len(unit.interfaces[1].properties[1].implementations[2].body) = 0
    /\ (pc = "returned" /\ tokens = InterfaceWithoutBodies) =>
          /\ lexer.diagnostics = <<>>
          /\ Len(unit.interfaces[1].methods) = 1

\* C18 witness: the interface with a method body and an accessor body has
\* been parsed.
DefaultImplementationsReportedWitness ==
    /\ pc = "returned"
    /\ tokens = InterfaceWithBodies
    /\ Len(unit.interfaces) = 1
    /\ HasDiagnostic(Diagnostic("E113", "method"))
    /\ HasDiagnostic(Diagnostic("E113", "property"))

\* A property in the token stream, p being the index of its PROPERTY keyword:
\* whether its name is missing, where its datatype is expected, whether the
\* datatype (a type name after a colon) is missing, and where its header ends
NameMissingAt(p) == KindAt(p + 1) # "Identifier"
DatatypeIndex(p) == IF NameMissingAt(p) THEN p + 1 ELSE p + 2
DatatypeMissingAt(p) ==
    ~(KindAt(DatatypeIndex(p)) = "KeywordColon" /\ KindAt(DatatypeIndex(p) + 1) = "Identifier")
HeaderEnd(p) ==
    IF ~DatatypeMissingAt(p) THEN DatatypeIndex(p) + 2
    ELSE IF KindAt(DatatypeIndex(p)) = "KeywordColon" THEN DatatypeIndex(p) + 1
    ELSE DatatypeIndex(p)

\* whether the keyword at p is closed by `end` before any END_PROPERTY
ClosedBy(p, end) == FirstIndexOf(p, {end}) < FirstIndexOf(p, {"KeywordEndProperty"})

\* the index after the variable blocks `VAR.. ... END_VAR` in a row from p on
RECURSIVE BlocksEnd(_)
BlocksEnd(p) ==
    IF is_var(KindAt(p)) /\ ClosedBy(p, "KeywordEndVar")
    THEN BlocksEnd(FirstIndexOf(p, {"KeywordEndVar"}) + 1)
    ELSE p

\* the number of these blocks
RECURSIVE BlocksFrom(_)
BlocksFrom(p) ==
    IF is_var(KindAt(p)) /\ ClosedBy(p, "KeywordEndVar")
    THEN 1 + BlocksFrom(FirstIndexOf(p, {"KeywordEndVar"}) + 1)
    ELSE 0

\* the index after the accessors `GET ... END_GET` and `SET ... END_SET` in a
\* row from p on
RECURSIVE AccessorsEnd(_)
AccessorsEnd(p) ==
    IF KindAt(p) = "KeywordGet" /\ ClosedBy(p, "KeywordEndGet")
    THEN AccessorsEnd(FirstIndexOf(p, {"KeywordEndGet"}) + 1)
    ELSE IF KindAt(p) = "KeywordSet" /\ ClosedBy(p, "KeywordEndSet")
    THEN AccessorsEnd(FirstIndexOf(p, {"KeywordEndSet"}) + 1)
    ELSE p

\* the index of the END_PROPERTY that follows the blocks and accessors of the
\* property at p, 0 when something else follows them
EndPropertyIndex(p) ==
    IF KindAt(AccessorsEnd(BlocksEnd(HeaderEnd(p)))) = "KeywordEndProperty"
    THEN AccessorsEnd(BlocksEnd(HeaderEnd(p)))
    ELSE 0

\* the variable blocks of the accessors a property was returned with
RECURSIVE AccessorBlocks(_)
AccessorBlocks(implementations) ==
    IF Len(implementations) = 0 THEN 0
    ELSE Len(Head(implementations).variable_blocks) + AccessorBlocks(Tail(implementations))

\* C19: every call of parse_property returns no node exactly when the name or
\* the datatype is missing, having recorded the diagnostic for either; when
\* blocks, accessors and END_PROPERTY follow the header the call ends right
\* after END_PROPERTY whether it returns a node or not; it records one E007
\* for each variable block directly under the property, and the accessors it
\* returns hold only the variable blocks written after GET or SET.
PropertyDiscardedAsAWhole ==
    \A c \in CallsOf("parse_property") :
        /\ IsNone(lexer.calls[c].result)
              <=> (NameMissingAt(lexer.calls[c].from) \/ DatatypeMissingAt(lexer.calls[c].from))
        /\ Count(DiagnosticsOf(lexer.calls[c]), Diagnostic("property", "missing a name"))
              = IF NameMissingAt(lexer.calls[c].from) THEN 1 ELSE 0
        /\ Count(DiagnosticsOf(lexer.calls[c]), Diagnostic("property", "missing a datatype"))
              = IF DatatypeMissingAt(lexer.calls[c].from) THEN 1 ELSE 0
        /\ EndPropertyIndex(lexer.calls[c].from) # 0 =>
              /\ lexer.calls[c].to = EndPropertyIndex(lexer.calls[c].from) + 1
              /\ Count(DiagnosticsOf(lexer.calls[c]), Diagnostic("E007", "variable block"))
                    = BlocksFrom(HeaderEnd(lexer.calls[c].from))
              /\ IsSome(lexer.calls[c].result) =>
                    AccessorBlocks(lexer.calls[c].result[1].implementations)
                        = Cardinality({i \in BlocksEnd(HeaderEnd(lexer.calls[c].from))
                                                ..(lexer.calls[c].to - 1) : is_var(KindAt(i))})

\* C19 witness: a property without datatype, with a variable block directly
\* under it and an accessor, was consumed up to END_PROPERTY and discarded.
PropertyDiscardedAsAWholeWitness ==
    \E c \in CallsOf("parse_property") :
        /\ IsNone(lexer.calls[c].result)
        /\ DatatypeMissingAt(lexer.calls[c].from)
        /\ BlocksFrom(HeaderEnd(lexer.calls[c].from)) = 1
        /\ AccessorsEnd(BlocksEnd(HeaderEnd(lexer.calls[c].from)))
              > BlocksEnd(HeaderEnd(lexer.calls[c].from))
        /\ EndPropertyIndex(lexer.calls[c].from) # 0
        /\ lexer.calls[c].to = EndPropertyIndex(lexer.calls[c].from) + 1

\* whether an expression is a single member reference
IsMemberReference(e) == e.stmt = "ReferenceExpr" /\ e.access = "Member"

\* A call of parse_type_reference_type_definition that returned a declaration,
\* c being its entry in the log: the declaration, and whether a parenthesis
\* follows the type's identifier
DeclOf(c) == lexer.calls[c].result[1].decl
Parenthesized(c) == KindAt(lexer.calls[c].from + 1) = "KeywordParensOpen"

\* the variant follows the shape of the parsed expression
VariantFollowsShape(c) ==
    /\ DeclOf(c).kind = "Definition"
    /\ DeclOf(c).data_type.name = lexer.calls[c].arg
    /\ DeclOf(c).data_type.type \in {"EnumType", "SubRangeType"}
    /\ DeclOf(c).data_type.type = "EnumType" =>
          /\ DeclOf(c).data_type.numeric_type = SliceAt(lexer.calls[c].from)
          /\ \/ DeclOf(c).data_type.elements.stmt = "ExpressionList"
             \/ IsMemberReference(DeclOf(c).data_type.elements)
    /\ DeclOf(c).data_type.type = "SubRangeType" =>
          /\ DeclOf(c).data_type.referenced_type = SliceAt(lexer.calls[c].from)
          /\ IsSome(DeclOf(c).data_type.bounds)
          /\ DeclOf(c).data_type.bounds[1].stmt # "ExpressionList"
          /\ ~IsMemberReference(DeclOf(c).data_type.bounds[1])

\* the shapes `(a, ...`, `(a)` and `(1..2)` read from the tokens
ShapeFromTokens(c) ==
    /\ (KindAt(lexer.calls[c].from + 2) = "Identifier"
            /\ KindAt(lexer.calls[c].from + 3) = "KeywordComma") =>
          /\ DeclOf(c).data_type.type = "EnumType"
          /\ DeclOf(c).data_type.elements.stmt = "ExpressionList"
    /\ (KindAt(lexer.calls[c].from + 2) = "Identifier"
            /\ KindAt(lexer.calls[c].from + 3) = "KeywordParensClose") =>
          /\ DeclOf(c).data_type.type = "EnumType"
          /\ DeclOf(c).data_type.elements
                = [stmt |-> "ReferenceExpr", access |-> "Member",
                   name |-> SliceAt(lexer.calls[c].from + 2)]
    /\ (KindAt(lexer.calls[c].from + 2) = "LiteralInteger"
            /\ KindAt(lexer.calls[c].from + 3) = "KeywordDotDot"
            /\ KindAt(lexer.calls[c].from + 4) = "LiteralInteger"
            /\ KindAt(lexer.calls[c].from + 5) = "KeywordParensClose") =>
          /\ DeclOf(c).data_type.type = "SubRangeType"
          /\ DeclOf(c).data_type.bounds[1].stmt = "RangeStatement"

\* the result without parentheses
WithoutParentheses(c) ==
    IF IsSome(lexer.calls[c].arg)
    THEN /\ DeclOf(c).kind = "Definition"
         /\ DeclOf(c).data_type
               = [type |-> "SubRangeType", name |-> lexer.calls[c].arg,
                  referenced_type |-> SliceAt(lexer.calls[c].from), bounds |-> None]
    ELSE DeclOf(c) = Reference(SliceAt(lexer.calls[c].from))

\* C20: every call of parse_type_reference_type_definition on an identifier
\* followed by a parenthesized expression returns one declaration, chosen by
\* the shape of the expression: an Enum over the identifier for an expression
\* list and for a single member reference, a SubRange over the identifier
\* with the expression as bounds for anything else; without parentheses it
\* returns a SubRange without bounds when a name is given and a Reference
\* otherwise. It returns nothing only when the parenthesis is left open.
TypeReferenceVariant ==
    \A c \in CallsOf("parse_type_reference_type_definition") :
        /\ IsNone(lexer.calls[c].result) => Parenthesized(c)
        /\ IsSome(lexer.calls[c].result) =>
              IF Parenthesized(c)
              THEN VariantFollowsShape(c) /\ ShapeFromTokens(c)
              ELSE WithoutParentheses(c)

\* C20 witness: one TYPE block whose four declarations gave an Enum from a
\* list, an Enum from one member reference, a SubRange with bounds and a
\* SubRange without, and a variable whose type stayed a Reference.
TypeReferenceVariantWitness ==
    /\ \E c \in CallsOf("parse_type_reference_type_definition") :
          /\ IsSome(lexer.calls[c].result) /\ Parenthesized(c)
          /\ DeclOf(c).data_type.type = "EnumType"
          /\ DeclOf(c).data_type.elements.stmt = "ExpressionList"
    /\ \E c \in CallsOf("parse_type_reference_type_definition") :
          /\ IsSome(lexer.calls[c].result) /\ Parenthesized(c)
          /\ DeclOf(c).data_type.type = "EnumType"
          /\ IsMemberReference(DeclOf(c).data_type.elements)
    /\ \E c \in CallsOf("parse_type_reference_type_definition") :
          /\ IsSome(lexer.calls[c].result) /\ Parenthesized(c)
          /\ DeclOf(c).data_type.type = "SubRangeType"
    /\ \E c \in CallsOf("parse_type_reference_type_definition") :
          /\ IsSome(lexer.calls[c].result) /\ ~Parenthesized(c)
          /\ IsSome(lexer.calls[c].arg)
    /\ \E c \in CallsOf("parse_type_reference_type_definition") :
          /\ IsSome(lexer.calls[c].result) /\ ~Parenthesized(c)
          /\ IsNone(lexer.calls[c].arg)

\* the Pointer type over the declaration that call t of
\* parse_data_type_definition returned
PointerOver(t, name, auto_deref, type_safe) ==
    [type |-> "PointerType", name |-> name,
     referenced_type |-> lexer.calls[t].result[1].decl,
     auto_deref |-> auto_deref, type_safe |-> type_safe]

\* the E015 diagnostics a call recorded
UnsafePointers(c) == Count(DiagnosticsOf(lexer.calls[c]), Diagnostic("E015", "POINTER TO"))

\* call c of parse_data_type_definition started on `keyword T`, the keyword
\* being `width` tokens long, and call t is the one that parsed T
PointerKeywordAt(c, t, width) ==
    /\ t \in CallsOf("parse_data_type_definition")
    /\ lexer.calls[t].from = lexer.calls[c].from + width
    /\ IsSome(lexer.calls[t].result)

\* C21: `POINTER TO T`, `REF_TO T` and a variable line `: REFERENCE TO T`
\* all give the Pointer type over what T parses to, with auto-deref none and
\* type-safe false for POINTER TO, which records one E015 of its own,
\* auto-deref none and type-safe true for REF_TO and auto-deref Reference and
\* type-safe true for REFERENCE TO, neither of which records an E015.
PointerNormalized ==
    /\ \A c \in CallsOf("parse_data_type_definition") :
          /\ (KindAt(lexer.calls[c].from) = "KeywordPointer"
                  /\ KindAt(lexer.calls[c].from + 1) = "KeywordTo") =>
                \E t \in 1..Len(lexer.calls) :
                    /\ PointerKeywordAt(c, t, 2)
                    /\ IsSome(lexer.calls[c].result)
                    /\ lexer.calls[c].result[1].decl.kind = "Definition"
                    /\ lexer.calls[c].result[1].decl.data_type
                          = PointerOver(t, lexer.calls[c].arg, None, FALSE)
                    /\ UnsafePointers(c) = 1 + UnsafePointers(t)
          /\ KindAt(lexer.calls[c].from) = "KeywordRef" =>
                \E t \in 1..Len(lexer.calls) :
                    /\ PointerKeywordAt(c, t, 1)
                    /\ IsSome(lexer.calls[c].result)
                    /\ lexer.calls[c].result[1].decl.kind = "Definition"
                    /\ lexer.calls[c].result[1].decl.data_type
                          = PointerOver(t, lexer.calls[c].arg, None, TRUE)
                    /\ UnsafePointers(c) = UnsafePointers(t)
    /\ \A v \in CallsOf("parse_variable_line") :
          (KindAt(lexer.calls[v].from + 1) = "KeywordColon"
              /\ KindAt(lexer.calls[v].from + 2) = "KeywordReferenceTo") =>
                \E t \in 1..Len(lexer.calls) :
                    /\ t \in CallsOf("parse_data_type_definition")
                    /\ lexer.calls[t].from = lexer.calls[v].from + 3
                    /\ IsSome(lexer.calls[t].result)
                    /\ Len(lexer.calls[v].result) = 1
                    /\ lexer.calls[v].result[1].data_type_declaration.kind = "Definition"
                    /\ lexer.calls[v].result[1].data_type_declaration.data_type
                          = PointerOver(t, None, Some("Reference"), TRUE)
                    /\ UnsafePointers(v) = UnsafePointers(t)

\* C21 witness: one variable block gave a POINTER TO INT with its E015, a
\* REF_TO INT and a REFERENCE TO INT, all three over the Reference to INT.
PointerNormalizedWitness ==
    /\ \E c \in CallsOf("parse_data_type_definition") :
          /\ KindAt(lexer.calls[c].from) = "KeywordPointer"
          /\ IsSome(lexer.calls[c].result)
          /\ lexer.calls[c].result[1].decl.data_type.referenced_type = Reference("INT")
          /\ ~lexer.calls[c].result[1].decl.data_type.type_safe
          /\ UnsafePointers(c) = 1
    /\ \E c \in CallsOf("parse_data_type_definition") :
          /\ KindAt(lexer.calls[c].from) = "KeywordRef"
          /\ IsSome(lexer.calls[c].result)
          /\ lexer.calls[c].result[1].decl.data_type.referenced_type = Reference("INT")
          /\ lexer.calls[c].result[1].decl.data_type.type_safe
    /\ \E v \in CallsOf("parse_variable_line") :
          /\ KindAt(lexer.calls[v].from + 2) = "KeywordReferenceTo"
          /\ Len(lexer.calls[v].result) = 1
          /\ lexer.calls[v].result[1].data_type_declaration.data_type.referenced_type
                = Reference("INT")
          /\ lexer.calls[v].result[1].data_type_declaration.data_type.auto_deref
                = Some("Reference")

\* the calls of parse_variable_line for the lines of the block that call b of
\* parse_variable_block parsed (not the lines of a struct inside a line)
LinesOf(b) ==
    {v \in CallsOf("parse_variable_line") :
        /\ lexer.calls[b].from < lexer.calls[v].from
        /\ lexer.calls[v].to <= lexer.calls[b].to
        /\ \A w \in CallsOf("parse_variable_line") :
              ~(lexer.calls[w].from < lexer.calls[v].from
                    /\ lexer.calls[v].to <= lexer.calls[w].to)}

\* the variables these lines returned, in the order of the calls from k on
RECURSIVE DeclaredFrom(_, _)
DeclaredFrom(b, k) ==
    IF k > Len(lexer.calls) THEN <<>>
    ELSE (IF k \in LinesOf(b) THEN lexer.calls[k].result ELSE <<>>) \o DeclaredFrom(b, k + 1)

\* whether block b is written with CONSTANT, and whether it is VAR_EXTERNAL
WrittenConstant(b) == KindAt(lexer.calls[b].from + 1) = "KeywordConstant"
WrittenExternal(b) == KindAt(lexer.calls[b].from) = "KeywordVarExternal"

\* `filled` is `declared` with the default-value marker in place of every
\* missing initializer
DefaultsFilled(filled, declared) ==
    /\ Len(filled) = Len(declared)
    /\ \A i \in 1..Len(declared) :
          /\ IsSome(filled[i].initializer)
          /\ IsSome(declared[i].initializer) => filled[i] = declared[i]
          /\ IsNone(declared[i].initializer) =>
                filled[i] = [declared[i] EXCEPT !.initializer = Some(DefaultValue)]

\* C22: the variables of a block written with CONSTANT that is not
\* VAR_EXTERNAL are the variables its lines declared with the default-value
\* marker for every missing initializer and the explicit initializers
\* unchanged; the variables of any other block are exactly those its lines
\* declared, so a variable declared without initializer has none.
ConstantsGetDefaults ==
    \A b \in CallsOf("parse_variable_block") :
        /\ lexer.calls[b].result.constant = WrittenConstant(b)
        /\ IF WrittenConstant(b) /\ ~WrittenExternal(b)
           THEN DefaultsFilled(lexer.calls[b].result.variables, DeclaredFrom(b, 1))
           ELSE lexer.calls[b].result.variables = DeclaredFrom(b, 1)

\* C22 witness: a constant block whose first variable got the marker and
\* whose second kept its initializer, and a VAR_EXTERNAL CONSTANT block whose
\* variable has no initializer.
ConstantsGetDefaultsWitness ==
    /\ \E b \in CallsOf("parse_variable_block") :
          /\ WrittenConstant(b) /\ ~WrittenExternal(b)
          /\ Len(lexer.calls[b].result.variables) = 2
          /\ IsNone(DeclaredFrom(b, 1)[1].initializer)
          /\ lexer.calls[b].result.variables[1].initializer = Some(DefaultValue)
          /\ IsSome(DeclaredFrom(b, 1)[2].initializer)
          /\ lexer.calls[b].result.variables[2].initializer
                = DeclaredFrom(b, 1)[2].initializer
    /\ \E b \in CallsOf("parse_variable_block") :
          /\ WrittenConstant(b) /\ WrittenExternal(b)
          /\ Len(lexer.calls[b].result.variables) = 1
          /\ IsNone(lexer.calls[b].result.variables[1].initializer)

\* the names a variable line starting at token p lists, and the index of the
\* token after them
RECURSIVE NamesAt(_)
NamesAt(p) ==
    IF KindAt(p) # "Identifier" THEN <<>>
    ELSE IF KindAt(p + 1) \in {"KeywordColon", "KeywordAt"} THEN <<SliceAt(p)>>
    ELSE IF KindAt(p + 1) = "KeywordComma" THEN <<SliceAt(p)>> \o NamesAt(p + 2)
    ELSE <<SliceAt(p)>> \o NamesAt(p + 1)

RECURSIVE NamesEnd(_)
NamesEnd(p) ==
    IF KindAt(p) # "Identifier" THEN p
    ELSE IF KindAt(p + 1) \in {"KeywordColon", "KeywordAt"} THEN p + 1
    ELSE IF KindAt(p + 1) = "KeywordComma" THEN NamesEnd(p + 2)
    ELSE NamesEnd(p + 1)

\* whether the line of call v is an alias declaration: AT and an identifier
IsAlias(v) ==
    /\ KindAt(NamesEnd(lexer.calls[v].from)) = "KeywordAt"
    /\ KindAt(NamesEnd(lexer.calls[v].from) + 1) = "Identifier"

\* the call of parse_data_type_definition for the type of line v: the first
\* one started inside the line
TypeCallOf(v, t) ==
    /\ t \in CallsOf("parse_data_type_definition")
    /\ lexer.calls[v].from < lexer.calls[t].from /\ lexer.calls[t].to <= lexer.calls[v].to
    /\ \A u \in CallsOf("parse_data_type_definition") :
          (lexer.calls[v].from < lexer.calls[u].from /\ lexer.calls[u].to <= lexer.calls[v].to)
              => lexer.calls[t].from <= lexer.calls[u].from

\* one Variable per name, in the order written, all equal but for the name
OnePerName(variables, names) ==
    /\ Len(variables) = Len(names)
    /\ \A i \in 1..Len(names) :
          variables[i] = Variable(names[i], variables[1].data_type_declaration,
                                  variables[1].initializer, variables[1].address)

\* C23: a variable line that is no alias declaration returns one Variable
\* for each name it lists, in the order written, all with the same type
\* declaration, initializer and hardware address, when its type parses, and
\* no Variable at all when it does not; a line `names : T` carries what T
\* parsed to and no address, a line with a hardware address carries it.
LineExpandsToNames ==
    \A v \in CallsOf("parse_variable_line") :
        ~IsAlias(v) =>
            /\ \A t \in 1..Len(lexer.calls) :
                  TypeCallOf(v, t) =>
                      IF IsNone(lexer.calls[t].result)
                      THEN lexer.calls[v].result = <<>>
                      ELSE /\ OnePerName(lexer.calls[v].result, NamesAt(lexer.calls[v].from))
                           /\ Len(lexer.calls[v].result) >= 1
                           /\ lexer.calls[v].result[1].initializer = lexer.calls[t].result[1].init
            /\ (KindAt(NamesEnd(lexer.calls[v].from)) = "KeywordColon"
                    /\ KindAt(NamesEnd(lexer.calls[v].from) + 1) # "KeywordReferenceTo") =>
                  \A i \in 1..Len(lexer.calls[v].result) :
                      /\ IsNone(lexer.calls[v].result[i].address)
                      /\ \E t \in 1..Len(lexer.calls) :
                            /\ TypeCallOf(v, t)
                            /\ lexer.calls[v].result[i].data_type_declaration
                                  = lexer.calls[t].result[1].decl
            /\ (KindAt(NamesEnd(lexer.calls[v].from)) = "KeywordAt"
                    /\ KindAt(NamesEnd(lexer.calls[v].from) + 1) = "HardwareAccess"
                    /\ KindAt(NamesEnd(lexer.calls[v].from) + 2) = "LiteralInteger") =>
                  \A i \in 1..Len(lexer.calls[v].result) :
                      IsSome(lexer.calls[v].result[i].address)

\* C23 witness: a line of three names gave three Variables with the
\* initializer, a line of two names and an address gave two with the
\* address, and a line of two names without type gave none.
LineExpandsToNamesWitness ==
    /\ \E v \in CallsOf("parse_variable_line") :
          /\ Len(NamesAt(lexer.calls[v].from)) = 3
          /\ Len(lexer.calls[v].result) = 3
          /\ IsSome(lexer.calls[v].result[3].initializer)
    /\ \E v \in CallsOf("parse_variable_line") :
          /\ Len(NamesAt(lexer.calls[v].from)) = 2
          /\ Len(lexer.calls[v].result) = 2
          /\ IsSome(lexer.calls[v].result[2].address)
    /\ \E v \in CallsOf("parse_variable_line") :
          /\ ~IsAlias(v)
          /\ Len(NamesAt(lexer.calls[v].from)) = 2
          /\ lexer.calls[v].result = <<>>

\* the qualified name `a.b.c` written from token p on
RECURSIVE QualifiedAt(_)
QualifiedAt(p) ==
    IF KindAt(p + 1) = "KeywordDot" /\ KindAt(p + 2) = "Identifier"
    THEN qualified_name(SliceAt(p), QualifiedAt(p + 2))
    ELSE SliceAt(p)

\* the Variable an alias line gives: the first name, the type-safe Alias
\* pointer over what call t parsed, the aliased reference, no address
AliasOf(v, t) ==
    Variable(SliceAt(lexer.calls[v].from),
             [kind |-> "Definition",
              data_type |-> PointerOver(t, None, Some("Alias"), TRUE),
              scope |-> lexer.calls[v].result[1].data_type_declaration.scope],
             Some([stmt |-> "ReferenceExpr", access |-> "Member",
                   name |-> QualifiedAt(NamesEnd(lexer.calls[v].from) + 1)]),
             None)

\* C24: an alias line (names, AT, an identifier) returns at most one
\* Variable however many names it lists: none when the aliased type does not
\* parse, else the Variable named after the first name whose type is the
\* type-safe Pointer with auto-deref Alias over the parsed type, whose
\* initializer is the aliased reference and which has no hardware address.
AliasIsSingleVariable ==
    \A v \in CallsOf("parse_variable_line") :
        IsAlias(v) =>
            /\ Len(lexer.calls[v].result) <= 1
            /\ \E t \in 1..Len(lexer.calls) : TypeCallOf(v, t)
            /\ \A t \in 1..Len(lexer.calls) :
                  TypeCallOf(v, t) =>
                      IF IsNone(lexer.calls[t].result)
                      THEN lexer.calls[v].result = <<>>
                      ELSE /\ Len(lexer.calls[v].result) = 1
                           /\ lexer.calls[v].result = <<AliasOf(v, t)>>

\* C24 witness: the alias line `x, y AT foo : INT;` gave the one Variable x
\* and the alias line `bar AT foo.x : ;` gave none.
AliasIsSingleVariableWitness ==
    /\ \E v \in CallsOf("parse_variable_line") :
          /\ IsAlias(v)
          /\ Len(NamesAt(lexer.calls[v].from)) = 2
          /\ Len(lexer.calls[v].result) = 1
          /\ lexer.calls[v].result[1].name = "x"
          /\ lexer.calls[v].result[1].initializer
                = Some([stmt |-> "ReferenceExpr", access |-> "Member", name |-> "foo"])
    /\ \E v \in CallsOf("parse_variable_line") :
          /\ IsAlias(v)
          /\ QualifiedAt(NamesEnd(lexer.calls[v].from) + 1) = "foo.x"
          /\ lexer.calls[v].result = <<>>

\* the index after the qualified name written from token p on, and after the
\* integers `1.2.3` written from token p on
RECURSIVE QualifiedEnd(_)
QualifiedEnd(p) ==
    IF KindAt(p + 1) = "KeywordDot" /\ KindAt(p + 2) = "Identifier"
    THEN QualifiedEnd(p + 2)
    ELSE p + 1

RECURSIVE IntegersEnd(_)
IntegersEnd(p) ==
    IF KindAt(p + 1) = "KeywordDot" /\ KindAt(p + 2) = "LiteralInteger"
    THEN IntegersEnd(p + 2)
    ELSE p + 1

\* a VAR_CONFIG entry `reference AT %address : T ;` written from token p on:
\* its parts from the AT at token a on, and its type from the colon at c on
TypedFrom(c) ==
    /\ KindAt(c) = "KeywordColon"
    /\ KindAt(c + 1) = "Identifier"
    /\ KindAt(c + 2) = "KeywordSemicolon"

AddressedFrom(a) ==
    /\ KindAt(a) = "KeywordAt"
    /\ KindAt(a + 1) = "HardwareAccess"
    /\ KindAt(a + 2) = "LiteralInteger"
    /\ TypedFrom(IntegersEnd(a + 2))

WellFormedEntry(p) == KindAt(p) = "Identifier" /\ AddressedFrom(QualifiedEnd(p))

\* what a well-formed entry gives
EntryGiven(e) ==
    /\ IsSome(lexer.calls[e].result)
    /\ DiagnosticsOf(lexer.calls[e]) = <<>>
    /\ lexer.calls[e].result[1].reference
          = [stmt |-> "ReferenceExpr", access |-> "Member",
             name |-> QualifiedAt(lexer.calls[e].from)]
    /\ lexer.calls[e].result[1].data_type
          = Reference(SliceAt(IntegersEnd(QualifiedEnd(lexer.calls[e].from) + 2) + 1))
    /\ lexer.calls[e].result[1].address.stmt = "HardwareAccess"

\* what a malformed entry gives according to the claim
EntryDropped(e) ==
    /\ IsNone(lexer.calls[e].result)
    /\ DiagnosticsOf(lexer.calls[e]) # <<>>

\* a malformed entry is reported
EntryReported(e) == DiagnosticsOf(lexer.calls[e]) # <<>>

\* the entries of a block are all tried: every identifier that starts an
\* entry after a semicolon inside a VAR_CONFIG block that was parsed is the
\* start of a call
EntriesAllTried ==
    \A e \in CallsOf("try_parse_config_var") :
        (KindAt(lexer.calls[e].to) = "Identifier") =>
            \E f \in CallsOf("try_parse_config_var") :
                lexer.calls[f].from = lexer.calls[e].to

\* C25: every VAR_CONFIG entry that is well formed gives one ConfigVariable
\* with its reference, type and address and no diagnostic; every other entry
\* (no AT, no or a malformed address, no type, an initializer) gives a
\* diagnostic and no ConfigVariable; the entry after it is parsed all the same.
ConfigEntryAllOrNothing ==
    /\ EntriesAllTried
    /\ \A e \in CallsOf("try_parse_config_var") :
          IF WellFormedEntry(lexer.calls[e].from) THEN EntryGiven(e) ELSE EntryDropped(e)

-----------------------------------------------------------------------------
(* Constant pragma on POUs and methods *)

ConstPragmaNotAllowed(seq) ==
    Cardinality({i \in 1..Len(seq) : seq[i].code = "const_pragma_is_not_allowed"})

\* a POU dispatched with the constant flag set: one diagnostic for the POU
\* unless the linkage is BuiltIn, and the primary Pou carries the flag
ConstPragmaOnPou ==
    (pc = "loop" /\ constant
        /\ Tok(lexer) \in {"KeywordProgram", "KeywordClass", "KeywordFunction",
                           "KeywordFunctionBlock"}) =>
        /\ Count(NewDiagnostics, Diagnostic("const_pragma_is_not_allowed", "POU"))
              = IF linkage # "BuiltIn" THEN 1 ELSE 0
        /\ Len(NewPous) > 0 => NewPous[1].is_const

\* a method parsed with the constant flag set: its Pou carries the flag
ConstMethodFlagged(c) ==
    (c.arg.constant /\ IsSome(c.result)) => c.result[1].pou.is_const

\* a method parsed with the constant flag set: one diagnostic unless the
\* linkage is BuiltIn
ConstMethodReported(c) ==
    c.arg.constant =>
        ConstPragmaNotAllowed(DiagnosticsOf(c)) = IF c.arg.linkage # "BuiltIn" THEN 1 ELSE 0

ConstPragmaOnMethods ==
    \A c \in CallsOf("parse_method") :
        ConstMethodFlagged(lexer.calls[c]) /\ ConstMethodReported(lexer.calls[c])

\* C26 as claimed: a constant pragma on a POU or on a method records the
\* const-pragma-not-allowed diagnostic exactly when the linkage of the
\* declaration is not BuiltIn, and the resulting Pou carries the
\* declared-constant flag in both cases.
ConstPragmaOnlyOutsideBuiltIn ==
    [][ConstPragmaOnPou /\ ConstPragmaOnMethods']_vars

\* what holds of the methods: the flag is carried, and the diagnostic is
\* recorded for every constant method whatever the linkage
ConstMethodsAsParsed ==
    \A c \in CallsOf("parse_method") :
        /\ ConstMethodFlagged(lexer.calls[c])
        /\ lexer.calls[c].arg.constant =>
              ConstPragmaNotAllowed(DiagnosticsOf(lexer.calls[c])) = 1

ConstPragmaAsParsed ==
    [][ConstPragmaOnPou /\ ConstMethodsAsParsed']_vars

-----------------------------------------------------------------------------
(* Pous and Implementations appended by POUs and actions *)

IsParsedMethod(c) == c.fn = "parse_method" /\ IsSome(c.result)

\* the methods parsed in this step, in source order
ParsedMethods ==
    SelectSeq(SubSeq(lexer'.calls, Len(lexer.calls) + 1, Len(lexer'.calls)),
              IsParsedMethod)

\* a POU with k parsed methods: k + 1 Pous, the primary one first, and
\* k + 1 Implementations, the primary one last
PouAppendsMembers ==
    (pc = "loop" /\ Tok(lexer) \in {"KeywordProgram", "KeywordClass", "KeywordFunction",
                                    "KeywordFunctionBlock"}) =>
        /\ Len(NewPous) = Len(ParsedMethods) + 1
        /\ Len(NewImplementations) = Len(ParsedMethods) + 1
        /\ NewPous[1].kind = PouType(PouParams(Tok(lexer)).kind)
        /\ NewImplementations[Len(NewImplementations)].pou_type = NewPous[1].kind
        /\ NewImplementations[Len(NewImplementations)].name = NewPous[1].name
        /\ \A j \in 1..Len(ParsedMethods) :
              /\ NewPous[j + 1] = ParsedMethods[j].result[1].pou
              /\ NewImplementations[j] = ParsedMethods[j].result[1].implementation

\* an action, alone or in an ACTIONS block: Implementations only
ActionAppendsImplementation ==
    /\ (pc = "loop" /\ Tok(lexer) = "KeywordAction") =>
          /\ NewPous = <<>>
          /\ Len(NewImplementations) <= 1
          /\ (KindAt(lexer.pos + 2) = "KeywordDot" /\ KindAt(lexer.pos + 3) = "Identifier")
                => Len(NewImplementations) = 1
    /\ (pc = "loop" /\ Tok(lexer) \in {"KeywordAction", "KeywordActions"}) =>
          /\ NewPous = <<>>
          /\ \A i \in 1..Len(NewImplementations) :
                NewImplementations[i].pou_type = PouType("Action")

\* C27: a POU with k parsed methods appends k + 1 Pous (primary first, then
\* the methods in source order) and k + 1 Implementations (the methods in
\* source order, then the primary); an action appends one Implementation
\* and no Pou; the unit never holds fewer Implementations than Pous.
PouAndMethodsAppended ==
    [][/\ PouAppendsMembers
       /\ ActionAppendsImplementation
       /\ Len(unit'.implementations) >= Len(unit'.pous)]_vars

\* a POU with two methods was appended, and an action after it
PouAndMethodsAppendedWitness ==
    /\ Len(unit.pous) = 3 /\ Len(unit.implementations) = 4
    /\ unit.pous[1].kind = PouType("FunctionBlock")
    /\ unit.pous[2].kind.type = "Method" /\ unit.pous[3].kind.type = "Method"
    /\ unit.implementations[1].name = unit.pous[2].name
    /\ unit.implementations[2].name = unit.pous[3].name
    /\ unit.implementations[3].name = unit.pous[1].name
    /\ unit.implementations[4].pou_type = PouType("Action")

-----------------------------------------------------------------------------
(* What dispatching an INTERFACE adds to the unit *)

\* the interface appended in this step
NewInterface == unit'.interfaces[Len(unit'.interfaces)]

\* C28: dispatching an INTERFACE appends exactly one Interface and leaves
\* the Pous, Implementations, user types, global variable blocks and config
\* variables of the unit as they were; the parsed methods are the methods
\* of the Interface, and their Implementations go nowhere.
InterfaceOnlyAddsInterface ==
    [][(pc = "loop" /\ Tok(lexer) = "KeywordInterface") =>
          /\ unit'.interfaces = Append(unit.interfaces, NewInterface)
          /\ unit'.pous = unit.pous
          /\ unit'.implementations = unit.implementations
          /\ unit'.user_types = unit.user_types
          /\ unit'.global_vars = unit.global_vars
          /\ unit'.var_config = unit.var_config
          /\ Len(NewInterface.methods) = Len(ParsedMethods)
          /\ \A j \in 1..Len(ParsedMethods) :
                NewInterface.methods[j] = ParsedMethods[j].result[1].pou]_vars

\* an interface with two methods, one of them with a body, was dispatched
\* after a POU
InterfaceOnlyAddsInterfaceWitness ==
    /\ Len(unit.interfaces) = 1 /\ Len(unit.interfaces[1].methods) = 2
    /\ Len(unit.pous) = 1 /\ Len(unit.implementations) = 1
    /\ lexer.calls[Len(lexer.calls)].fn = "parse_interface"
    /\ \E c \in CallsOf("parse_method") :
          /\ IsSome(lexer.calls[c].result)
          /\ Len(lexer.calls[c].result[1].implementation.statements) > 0

-----------------------------------------------------------------------------
(* The token parse_method consumes as the METHOD keyword *)

\* the token the call of parse_method consumed as its keyword
MethodKeywordOf(c) == KindAt(c.from)

\* C29 as claimed: parse_method is entered only with the cursor on METHOD, so
\* the token it consumes as the method keyword is always METHOD; a constant
\* pragma that is not followed by METHOD never makes PROPERTY or the end
\* keyword of the POU be consumed in its place.
MethodEnteredOnMethodKeyword ==
    \A c \in CallsOf("parse_method") : MethodKeywordOf(lexer.calls[c]) = "KeywordMethod"

\* what holds of C29: without the constant pragma in front, the cursor is on
\* METHOD when parse_method is entered
MethodEnteredOnMethodKeywordWithoutPragma ==
    \A c \in CallsOf("parse_method") :
        ~lexer.calls[c].arg.constant =>
            MethodKeywordOf(lexer.calls[c]) = "KeywordMethod"

====
